---- MODULE Spec2Model ----
(***************************************************************************)
(* A model of the product-service REST API: the category and product       *)
(* repositories (internal/data_layer), the pagination codec and the        *)
(* request parsing of internal/handlers.                                   *)
(*                                                                         *)
(* A time.Time is the record [day, sod, nsec, off]: the instant is `day`   *)
(* days after 0001-01-01 (UTC), `sod` seconds into that day and `nsec`     *)
(* nanoseconds; `off` is the offset in minutes of the value's location.    *)
(* An error value is a record [op, msg, wraps, id], Nil being the nil      *)
(* error; a pointer that may be nil is a set of at most one element.       *)
(***************************************************************************)
EXTENDS Integers, Sequences, FiniteSets, TLC

VARIABLES
    categories,   \* table categories: a set of rows [id, name, created_at]
    minLimit,     \* CategoryRepo.minLimit
    maxLimit,     \* CategoryRepo.maxLimit
    call,         \* the repository call that ran last: [op, ...arguments]
    args,         \* the named arguments bound to the last list query
    result,       \* what the last repository call returned
    products,     \* table products: a set of rows
    request,      \* the HTTP request the handler served last
    response,     \* what the handler did with its http.ResponseWriter, in order
    logged,       \* the LogError calls of the handler, in order
    trace,        \* what the handler did for the request, in program order
    traversal,    \* a client that pages through GET /categories: where it is
    fetches       \* the number of pages that client has fetched, modulo 2

vars == <<categories, minLimit, maxLimit, call, args, result,
          products, request, response, logged, trace, traversal, fetches>>
httpVars == <<request, response, logged, trace, traversal, fetches>>

\* no client is paging
NoTraversal == [state |-> "idle", limit |-> <<>>, cursor |-> <<>>, seen |-> {}, repeated |-> {}]

(***************************************************************************)
(* Bounds of the model.                                                    *)
(***************************************************************************)
MaxIds == 3
MaxCfgLimit == 2

Ids == 1..MaxIds
Names == {"A", "B"}
CfgLimits == 1..MaxCfgLimit
ReqLimits == (-1)..(MaxCfgLimit + 1)

(***************************************************************************)
(* time.Time                                                               *)
(***************************************************************************)
Time(day, sod, nsec, off) == [day |-> day, sod |-> sod, nsec |-> nsec, off |-> off]

\* time.Time{} : January 1, year 1, 00:00:00.000000000 UTC
ZeroTime == Time(0, 0, 0, 0)

\* t.Equal(u): the same instant, whatever the locations
SameInstant(t, u) == t.day = u.day /\ t.sod = u.sod /\ t.nsec = u.nsec

\* t.Before(u)
Before(t, u) ==
    \/ t.day < u.day
    \/ t.day = u.day /\ t.sod < u.sod
    \/ t.day = u.day /\ t.sod = u.sod /\ t.nsec < u.nsec

\* SQL: t >= u on timestamps
NotBefore(t, u) == ~Before(t, u)

\* days after 0001-01-01 of the proleptic Gregorian date y-m-d
DaysFromCivil(y, m, d) ==
    LET yy  == IF m <= 2 THEN y - 1 ELSE y
        era == yy \div 400
        yoe == yy - era * 400
        mp  == (m + 9) % 12
        doy == (153 * mp + 2) \div 5 + d - 1
        doe == yoe * 365 + yoe \div 4 - yoe \div 100 + doy
    IN  era * 146097 + doe - 306

\* the proleptic Gregorian date of the day `z` days after 0001-01-01
CivilFromDays(z) ==
    LET zz  == z + 306
        era == zz \div 146097
        doe == zz - era * 146097
        yoe == (doe - doe \div 1460 + doe \div 36524 - doe \div 146096) \div 365
        doy == doe - (365 * yoe + yoe \div 4 - yoe \div 100)
        mp  == (5 * doy + 2) \div 153
        d   == doy - (153 * mp + 2) \div 5 + 1
        m   == IF mp < 10 THEN mp + 3 ELSE mp - 9
        y   == yoe + era * 400
    IN  [year |-> IF m <= 2 THEN y + 1 ELSE y, month |-> m, day |-> d]

\* the timestamps the tables hold
T2023 == Time(DaysFromCivil(2023, 1, 1), 0, 0, 0)
T2025 == Time(DaysFromCivil(2025, 10, 13), 0, 0, 0)
StoreTimes == {T2023, T2025}
\* instants between and after them, for cursors
T2023n == Time(DaysFromCivil(2023, 1, 1), 0, 1, 0)
T2026 == Time(DaysFromCivil(2026, 1, 1), 0, 0, 0)

(***************************************************************************)
(* Errors                                                                  *)
(***************************************************************************)
\* uuid.Nil, the all-zero UUID
UUIDNil == 0

\* the nil error
Nil == [op |-> "", msg |-> "", wraps |-> {}, id |-> UUIDNil]
ErrNotFound == "ErrNotFound"
DriverErr == "driver error"
\* context.DeadlineExceeded, the ctx.Err() of a context whose deadline passed
DeadlineExceeded == "context deadline exceeded"

\* the error a failed statement returns: ctx.Err() once the deadline of the
\* context has passed, the driver's own error otherwise
StatementErr(db) == IF db = "deadline" THEN DeadlineExceeded ELSE DriverErr

\* a sentinel created by errors.New: errors.Is finds it in itself
Sentinel(text) == [op |-> "", msg |-> text, wraps |-> {text}, id |-> UUIDNil]

\* fmt.Errorf("<op>: <msg>: %w", cause); `id` is the identifier the message quotes
Errorf(op, msg, cause) == [op |-> op, msg |-> msg, wraps |-> {cause}, id |-> UUIDNil]
ErrorfID(op, msg, cause, id) == [op |-> op, msg |-> msg, wraps |-> {cause}, id |-> id]

\* errors.Is(err, target)
ErrorsIs(err, target) == err # Nil /\ target \in err.wraps

(***************************************************************************)
(* Slices: Go tells a nil slice from an empty one.                         *)
(***************************************************************************)
NilSlice == [nil |-> TRUE, items |-> <<>>]
EmptySlice == [nil |-> FALSE, items |-> <<>>]
Slice(s) == [nil |-> FALSE, items |-> s]

\* append(sl, xs...) for a sequence xs of fetched rows
AppendAll(sl, xs) == IF Len(xs) = 0 THEN sl ELSE Slice(sl.items \o xs)

\* s[:n]
Take(s, n) == IF n >= Len(s) THEN s ELSE SubSeq(s, 1, n)

(***************************************************************************)
(* data_layer/common.go                                                    *)
(***************************************************************************)
\* checkLimit as it would be without the upper bound
checkLimitNoUpper(limit, min, max) ==
    IF limit < min THEN min ELSE limit

checkLimit(limit, min, max) ==
    IF limit < min THEN min
    ELSE IF limit > max THEN max
    ELSE limit

\* what sql.Result.RowsAffected() returns: the count, or an error
SqlResult(rows, db) == [rows |-> rows, err |-> IF db = "rowsErr" THEN DriverErr ELSE ""]

\* checkRowsAffected as it would be if a count of zero were no error
checkRowsAffectedZeroOk(res, op) ==
    IF res.err # "" THEN Errorf(op, "failed to get rows affected", res.err)
    ELSE Nil

checkRowsAffected(res, op) ==
    IF res.err # "" THEN Errorf(op, "failed to get rows affected", res.err)
    ELSE IF res.rows = 0 THEN Errorf(op, "no rows affected", ErrNotFound)
    ELSE Nil

(***************************************************************************)
(* The categories table and its queries                                    *)
(***************************************************************************)
TableColumns == {"id", "name", "description", "created_at"}

DescOf(name) == IF name = "A" THEN "description a" ELSE "description B"

Category(id, name, createdAt) ==
    [id |-> id, name |-> name, description |-> DescOf(name), created_at |-> createdAt]

\* the rows of the table with this primary key
RowsWithID(rows, id) == {r \in rows : r.id = id}

\* RowLess as it would be under ORDER BY created_at alone, when the database
\* delivers rows of one created_at by descending id
RowLessTimeOnly(a, b) ==
    \/ Before(a.created_at, b.created_at)
    \/ SameInstant(a.created_at, b.created_at) /\ a.id > b.id

\* ORDER BY created_at ASC, id ASC
RowLess(a, b) ==
    \/ Before(a.created_at, b.created_at)
    \/ SameInstant(a.created_at, b.created_at) /\ a.id < b.id

RECURSIVE OrderRows(_)
OrderRows(S) ==
    IF S = {} THEN <<>>
    ELSE LET first == CHOOSE x \in S : \A y \in S \ {x} : RowLess(x, y)
         IN  <<first>> \o OrderRows(S \ {first})

\* Matching as it would be with WHERE created_at > :created_at
MatchingAfter(rows, createdAfter) ==
    {r \in rows : Before(createdAfter, r.created_at)}

\* WHERE created_at >= :created_at
Matching(rows, createdAfter) ==
    {r \in rows : NotBefore(r.created_at, createdAfter)}

\* SELECT ... WHERE created_at >= :created_at ORDER BY created_at, id LIMIT :limit
SelectCategories(rows, a) ==
    Take(OrderRows(Matching(rows, a.created_at)), a.limit)

ListCategoryResult(cats, next, more, err) ==
    [Categories |-> cats, NextCursor |-> next, HasMore |-> more, Error |-> err]

\* ListArgs as it would be if the extra row were not fetched
ListArgsNoExtraRow(createdAfter, limit, min, max) ==
    [created_at |-> createdAfter, limit |-> checkLimit(limit, min, max)]

\* the query arguments ListCategories binds
ListArgs(createdAfter, limit, min, max) ==
    [created_at |-> createdAfter, limit |-> checkLimit(limit, min, max) + 1]

\* PageOf as it would be if the cursor were taken from the last row of the page
PageOfLastRowCursor(fetched, limit) ==
    LET cats == AppendAll(NilSlice, fetched)
    IN  IF Len(cats.items) = 0
        THEN ListCategoryResult(EmptySlice, ZeroTime, FALSE, Nil)
        ELSE IF Len(cats.items) = limit + 1
        THEN ListCategoryResult(Slice(Take(cats.items, limit)),
                                cats.items[limit].created_at, TRUE, Nil)
        ELSE ListCategoryResult(cats, ZeroTime, FALSE, Nil)

\* PageOf as it would be without the branch for an empty result set
PageOfNoEmptyBranch(fetched, limit) ==
    LET cats == AppendAll(NilSlice, fetched)
    IN  IF Len(cats.items) = limit + 1
        THEN ListCategoryResult(Slice(Take(cats.items, limit)),
                                cats.items[limit + 1].created_at, TRUE, Nil)
        ELSE ListCategoryResult(cats, ZeroTime, FALSE, Nil)

\* what ListCategories returns once every fetched row has been scanned
PageOf(fetched, limit) ==
    LET cats == AppendAll(NilSlice, fetched)
    IN  IF Len(cats.items) = 0
        THEN ListCategoryResult(EmptySlice, ZeroTime, FALSE, Nil)
        ELSE IF Len(cats.items) = limit + 1
        THEN ListCategoryResult(Slice(Take(cats.items, limit)),
                                cats.items[limit + 1].created_at, TRUE, Nil)
        ELSE ListCategoryResult(cats, ZeroTime, FALSE, Nil)

\* CategoryRepo.ListCategories; `db` is what the driver does with the query:
\* it fails, it delivers rows one of which does not scan, or it delivers them
ListCategoriesResult(rows, createdAfter, limit, min, max, db) ==
    LET a       == ListArgs(createdAfter, limit, min, max)
        fetched == SelectCategories(rows, a)
    IN  IF db \in {"queryErr", "deadline"}
        THEN ListCategoryResult(NilSlice, ZeroTime, FALSE,
                                Errorf("listCategories", "select query failed",
                                       StatementErr(db)))
        ELSE IF db = "scanErr" /\ Len(fetched) > 0
        THEN ListCategoryResult(NilSlice, ZeroTime, FALSE,
                                Errorf("listCategories", "scan failed", DriverErr))
        ELSE PageOf(fetched, a.limit - 1)

DbOutcomes == {"ok", "queryErr", "scanErr"}
CursorTimes == StoreTimes \cup {ZeroTime, T2023n, T2026}

ListCategories(createdAfter, limit, db) ==
    /\ call' = [op |-> "ListCategories", createdAfter |-> createdAfter,
                limit |-> limit, db |-> db]
    /\ args' = ListArgs(createdAfter, limit, minLimit, maxLimit)
    /\ result' = ListCategoriesResult(categories, createdAfter, limit,
                                      minLimit, maxLimit, db)
    /\ UNCHANGED <<categories, minLimit, maxLimit, products, httpVars>>

\* CategoryRepo.GetCategoryByID. The statement names the columns
\* id, name, description, createdAt; a statement that names a column the table
\* does not have is rejected by the database.
GetCategoryByIDColumns == {"id", "name", "description", "createdAt"}

GetCategoryByIDResult(rows, id, db) ==
    IF db \in {"queryErr", "deadline"} \/ ~(GetCategoryByIDColumns \subseteq TableColumns)
    THEN [category |-> {},
          err |-> Errorf("getCategoryByID", "select query failed", StatementErr(db))]
    ELSE IF RowsWithID(rows, id) = {}
    THEN [category |-> {},
          err |-> ErrorfID("getCategoryByID", "id", ErrNotFound, id)]
    ELSE [category |-> RowsWithID(rows, id), err |-> Nil]

GetCategoryByID(id, db) ==
    /\ call' = [op |-> "GetCategoryByID", id |-> id, db |-> db]
    /\ result' = GetCategoryByIDResult(categories, id, db)
    /\ UNCHANGED <<categories, minLimit, maxLimit, args, products, httpVars>>

\* CategoryRepo.CreateCategory: INSERT INTO categories(id, name, description,
\* created_at). `db` is "execErr" when the statement fails, "rowsErr" when the
\* driver cannot report the affected rows, "noRow" when the database executes
\* the statement and reports that it inserted no row. The primary key rejects
\* a second row with the same id.
CreateCategory(category, db) ==
    LET failed == db = "execErr" \/ RowsWithID(categories, category.id) # {}
    IN  /\ call' = [op |-> "CreateCategory", category |-> category, db |-> db]
        /\ categories' = IF failed \/ db = "noRow" THEN categories
                          ELSE categories \cup {category}
        /\ result' = IF failed
                      THEN Errorf("createCategory", "insert query failed", DriverErr)
                      ELSE checkRowsAffected(SqlResult(IF db = "noRow" THEN 0 ELSE 1, db),
                                             "createCategory")
        /\ UNCHANGED <<minLimit, maxLimit, args, products, httpVars>>

\* UPDATE categories SET name=:name, description=:description WHERE id=:id
UpdateRows(rows, category) ==
    {IF r.id = category.id
     THEN [r EXCEPT !.name = category.name, !.description = category.description]
     ELSE r : r \in rows}

\* CategoryRepo.UpdateCategory
UpdateCategory(category, db) ==
    LET failed == db = "execErr"
    IN  /\ call' = [op |-> "UpdateCategory", category |-> category, db |-> db]
        /\ categories' = IF failed THEN categories ELSE UpdateRows(categories, category)
        /\ result' = IF failed
                      THEN Errorf("updateCategory", "update query failed", DriverErr)
                      ELSE checkRowsAffected(
                               SqlResult(Cardinality(RowsWithID(categories, category.id)), db),
                               "updateCategory")
        /\ UNCHANGED <<minLimit, maxLimit, args, products, httpVars>>

\* CategoryRepo.DeleteCategory: DELETE FROM categories WHERE id = $1
DeleteCategory(id, db) ==
    LET failed == db = "execErr"
    IN  /\ call' = [op |-> "DeleteCategory", id |-> id, db |-> db]
        /\ categories' = IF failed THEN categories ELSE categories \ RowsWithID(categories, id)
        /\ result' = IF failed
                      THEN Errorf("deleteCategory", "delete query failed", DriverErr)
                      ELSE checkRowsAffected(
                               SqlResult(Cardinality(RowsWithID(categories, id)), db),
                               "deleteCategory")
        /\ UNCHANGED <<minLimit, maxLimit, args, products, httpVars>>

ExecOutcomes == {"ok", "execErr", "rowsErr"}
QueryOutcomes == {"ok", "queryErr"}
CategoryInputs == {Category(id, n, t) : id \in Ids, n \in Names, t \in StoreTimes}

\* the contents the table can have when the repository is constructed over it:
\* at most one row for each primary key
Tables ==
    {rows \in SUBSET {Category(id, "A", t) : id \in Ids, t \in StoreTimes} :
        \A r1, r2 \in rows : r1.id = r2.id => r1 = r2}

Init ==
    /\ categories \in Tables
    /\ minLimit \in CfgLimits
    /\ maxLimit \in CfgLimits
    /\ call = [op |-> "none"]
    /\ args = [created_at |-> ZeroTime, limit |-> 0]
    /\ result = Nil
    /\ products = {}
    /\ request = [handler |-> "none"]
    /\ response = <<>>
    /\ logged = <<>>
    /\ trace = <<>>
    /\ traversal = NoTraversal
    /\ fetches = 0

Next ==
    \/ \E t \in CursorTimes, l \in ReqLimits, db \in DbOutcomes : ListCategories(t, l, db)
    \/ \E id \in Ids, db \in QueryOutcomes : GetCategoryByID(id, db)
    \/ \E c \in CategoryInputs, db \in ExecOutcomes : CreateCategory(c, db)
    \/ \E c \in CategoryInputs, db \in ExecOutcomes : UpdateCategory(c, db)
    \/ \E id \in Ids, db \in ExecOutcomes : DeleteCategory(id, db)

Spec == Init /\ [][Next]_vars

\* the read-only use of the category repository: pages of an unchanging table
NextList ==
    \E t \in CursorTimes, l \in ReqLimits, db \in DbOutcomes : ListCategories(t, l, db)

SpecList == Init /\ [][NextList]_vars

(***************************************************************************)
(* data_layer/product_repo.go, with the checkLimit and the error           *)
(* sentinels of its revision of common.go                                  *)
(***************************************************************************)
packageMaxLimit == 1000
packageMinLimit == 1
errNotFound == "errNotFound"
errDBFailure == "errDBFailure"

\* fmt.Errorf(errMsg, funcName, sentinel, dbErr): "%s failed: %w (db error: %v)"
ErrMsg(funcName, sentinel) ==
    [op |-> funcName, msg |-> "failed", wraps |-> {sentinel}, id |-> UUIDNil]

\* checkLimit(limit) of that revision
checkLimitPackage(limit) ==
    IF limit < packageMinLimit THEN packageMinLimit
    ELSE IF limit > packageMaxLimit THEN packageMaxLimit
    ELSE limit

Product(id, name, createdAt) ==
    [id |-> id, name |-> name, description |-> DescOf(name), image_url |-> "test/image/url",
     category_id |-> 1, price |-> 234, quantity |-> 20, created_at |-> createdAt]

RECURSIVE OrderByID(_)
OrderByID(S) ==
    IF S = {} THEN <<>>
    ELSE LET first == CHOOSE x \in S : \A y \in S \ {x} : x.id < y.id
         IN  <<first>> \o OrderByID(S \ {first})

\* SELECT ... FROM products WHERE id > :id ORDER BY id ASC LIMIT :limit
SelectProducts(rows, id, limit) ==
    Take(OrderByID({r \in rows : r.id > id}), limit)

\* ProductRepo.ListProducts
ListProductsResult(rows, id, limit, db) ==
    LET fetched == SelectProducts(rows, id, checkLimitPackage(limit))
    IN  IF db = "queryErr"
        THEN [products |-> NilSlice, err |-> ErrMsg("ListProducts", errDBFailure)]
        ELSE IF db = "scanErr" /\ Len(fetched) > 0
        THEN [products |-> NilSlice, err |-> ErrMsg("ListProducts", errDBFailure)]
        ELSE [products |-> AppendAll(NilSlice, fetched), err |-> Nil]

ListProducts(id, limit, db) ==
    /\ call' = [op |-> "ListProducts", id |-> id, limit |-> limit, db |-> db]
    /\ args' = [id |-> id, limit |-> checkLimitPackage(limit)]
    /\ result' = ListProductsResult(products, id, limit, db)
    /\ UNCHANGED <<categories, minLimit, maxLimit, products, httpVars>>

\* ProductRepo.GetProductByID
GetProductByIDResult(rows, id, db) ==
    IF db = "queryErr"
    THEN [product |-> {}, err |-> ErrMsg("GetProductByID", errDBFailure)]
    ELSE IF RowsWithID(rows, id) = {}
    THEN [product |-> {}, err |-> ErrMsg("GetProductByID", errNotFound)]
    ELSE IF db = "scanErr"
    THEN [product |-> {}, err |-> ErrMsg("GetProductByID", errDBFailure)]
    ELSE [product |-> RowsWithID(rows, id), err |-> Nil]

GetProductByID(id, db) ==
    /\ call' = [op |-> "GetProductByID", id |-> id, db |-> db]
    /\ result' = GetProductByIDResult(products, id, db)
    /\ UNCHANGED <<categories, minLimit, maxLimit, args, products, httpVars>>

\* checkRowsAffected(result, funcName) of that revision
checkRowsAffectedPackage(res, funcName) ==
    IF res.err # "" THEN ErrMsg(funcName, errDBFailure)
    ELSE IF res.rows = 0 THEN ErrMsg(funcName, errNotFound)
    ELSE Nil

\* the operation names of the category repository of that revision, which
\* CreateProduct and UpdateProduct hand to checkRowsAffected
createCategory == "CreateCategory"
updateCategory == "UpdateCategory"

\* ProductRepo.CreateProduct: INSERT INTO products(...); the outcomes are
\* those of CreateCategory. No list query is bound by the three writes.
CreateProduct(product, db) ==
    LET failed == db = "execErr" \/ RowsWithID(products, product.id) # {}
    IN  /\ call' = [op |-> "CreateProduct", product |-> product, db |-> db]
        /\ products' = IF failed \/ db = "noRow" THEN products ELSE products \cup {product}
        /\ result' = IF failed
                      THEN ErrMsg("CreateProduct", errDBFailure)
                      ELSE checkRowsAffectedPackage(
                               SqlResult(IF db = "noRow" THEN 0 ELSE 1, db), createCategory)
        /\ args' = [id |-> UUIDNil, limit |-> 0]
        /\ UNCHANGED <<categories, minLimit, maxLimit, httpVars>>

\* ProductRepo.UpdateProduct: UPDATE products SET every column but id
\* WHERE id=:id
UpdateProduct(product, db) ==
    LET failed == db = "execErr"
    IN  /\ call' = [op |-> "UpdateProduct", product |-> product, db |-> db]
        /\ products' = IF failed THEN products
                        ELSE {IF r.id = product.id THEN product ELSE r : r \in products}
        /\ result' = IF failed
                      THEN ErrMsg("UpdateProduct", errDBFailure)
                      ELSE checkRowsAffectedPackage(
                               SqlResult(Cardinality(RowsWithID(products, product.id)), db),
                               updateCategory)
        /\ args' = [id |-> UUIDNil, limit |-> 0]
        /\ UNCHANGED <<categories, minLimit, maxLimit, httpVars>>

\* ProductRepo.DeleteProduct: DELETE FROM products WHERE id=:id
DeleteProduct(id, db) ==
    LET failed == db = "execErr"
    IN  /\ call' = [op |-> "DeleteProduct", id |-> id, db |-> db]
        /\ products' = IF failed THEN products ELSE products \ RowsWithID(products, id)
        /\ result' = IF failed
                      THEN ErrMsg("DeleteProduct", errDBFailure)
                      ELSE checkRowsAffectedPackage(
                               SqlResult(Cardinality(RowsWithID(products, id)), db),
                               "DeleteProduct")
        /\ args' = [id |-> UUIDNil, limit |-> 0]
        /\ UNCHANGED <<categories, minLimit, maxLimit, httpVars>>

\* the products handed to CreateProduct and UpdateProduct
ProductInputs == {Product(id, "A", t) : id \in Ids, t \in StoreTimes}

\* the contents the products table can have: at most one row for each id
ProductTables ==
    {rows \in SUBSET {Product(id, "A", t) : id \in Ids, t \in StoreTimes} :
        \A r1, r2 \in rows : r1.id = r2.id => r1 = r2}

ProductLimits == {-1, 0, 1, 2, 10, 100009}

InitProducts ==
    /\ categories = {}
    /\ minLimit = 1
    /\ maxLimit = 1
    /\ call = [op |-> "none"]
    /\ args = [id |-> UUIDNil, limit |-> 0]
    /\ result = Nil
    /\ products \in ProductTables
    /\ request = [handler |-> "none"]
    /\ response = <<>>
    /\ logged = <<>>
    /\ trace = <<>>
    /\ traversal = NoTraversal
    /\ fetches = 0

NextProducts ==
    \/ \E id \in {UUIDNil} \cup Ids, l \in ProductLimits, db \in DbOutcomes :
            ListProducts(id, l, db)
    \/ \E id \in Ids, db \in DbOutcomes : GetProductByID(id, db)
    \/ \E p \in ProductInputs, db \in ExecOutcomes \cup {"noRow"} : CreateProduct(p, db)
    \/ \E p \in ProductInputs, db \in ExecOutcomes : UpdateProduct(p, db)
    \/ \E id \in Ids, db \in ExecOutcomes : DeleteProduct(id, db)

SpecProducts == InitProducts /\ [][NextProducts]_vars

\* the writing use of the category repository, and the reads by identifier of
\* both repositories
\* the categories handed to CreateCategory, and those handed to
\* UpdateCategory, whose created_at may differ from the stored one
CreateInputs == {Category(id, n, T2023) : id \in Ids, n \in Names}
UpdateInputs == {Category(id, n, t) : id \in Ids, n \in Names, t \in StoreTimes}

InitCrud ==
    /\ categories \in {{}, {Category(1, "A", T2023)}}
    /\ minLimit = 1
    /\ maxLimit = MaxCfgLimit
    /\ call = [op |-> "none"]
    /\ args = [created_at |-> ZeroTime, limit |-> 0]
    /\ result = Nil
    /\ products = {Product(1, "A", T2023)}
    /\ request = [handler |-> "none"]
    /\ response = <<>>
    /\ logged = <<>>
    /\ trace = <<>>
    /\ traversal = NoTraversal
    /\ fetches = 0

NextCrud ==
    \/ \E id \in Ids, db \in QueryOutcomes : GetCategoryByID(id, db)
    \/ \E id \in Ids, db \in DbOutcomes : GetProductByID(id, db)
    \/ \E c \in CreateInputs, db \in ExecOutcomes \cup {"noRow"} : CreateCategory(c, db)
    \/ \E c \in UpdateInputs, db \in ExecOutcomes : UpdateCategory(c, db)
    \/ \E id \in Ids, db \in ExecOutcomes : DeleteCategory(id, db)

SpecCrud == InitCrud /\ [][NextCrud]_vars

(***************************************************************************)
(* handlers: the pagination codec.  A text is a sequence of bytes, a       *)
(* cursor a sequence of one-character strings.                             *)
(***************************************************************************)
Ch == [zero |-> 48, minus |-> 45, plus |-> 43, colon |-> 58, period |-> 46,
       comma |-> 44, T |-> 84, Z |-> 90]

IsDigit(b) == 48 <= b /\ b <= 57
DigitVal(b) == b - 48

\* the byte of s at position i, -1 past its end
At(s, i) == IF 1 <= i /\ i <= Len(s) THEN s[i] ELSE -1

RECURSIVE Digits(_)
Digits(n) == IF n < 10 THEN <<48 + n>> ELSE Digits(n \div 10) \o <<48 + (n % 10)>>

RECURSIVE Pad(_, _)
Pad(ds, width) == IF Len(ds) >= width THEN ds ELSE Pad(<<48>> \o ds, width)

\* time.appendInt: x in decimal, zero-padded to `width` digits, '-' before a
\* negative number
appendInt(x, width) ==
    IF x < 0 THEN <<45>> \o Pad(Digits(0 - x), width) ELSE Pad(Digits(x), width)

RECURSIVE TrimZeros(_)
TrimZeros(ds) ==
    IF Len(ds) > 0 /\ ds[Len(ds)] = 48 THEN TrimZeros(SubSeq(ds, 1, Len(ds) - 1)) ELSE ds

\* t.UTC()
UTC(t) == [t EXCEPT !.off = 0]

\* the date and clock t shows in its location
Wall(t) ==
    LET total == t.sod + t.off * 60
        c     == CivilFromDays(t.day + (total \div 86400))
        s     == total % 86400
    IN  [year |-> c.year, month |-> c.month, day |-> c.day,
         hour |-> s \div 3600, min |-> (s % 3600) \div 60, sec |-> s % 60]

\* t.Format(time.RFC3339Nano): "2006-01-02T15:04:05.999999999Z07:00"
FormatRFC3339Nano(t) ==
    LET w    == Wall(t)
        frac == IF t.nsec = 0 THEN <<>>
                ELSE <<Ch.period>> \o TrimZeros(Pad(Digits(t.nsec), 9))
        abs  == IF t.off < 0 THEN 0 - t.off ELSE t.off
        zone == IF t.off = 0 THEN <<Ch.Z>>
                ELSE <<IF t.off < 0 THEN Ch.minus ELSE Ch.plus>>
                     \o appendInt(abs \div 60, 2) \o <<Ch.colon>> \o appendInt(abs % 60, 2)
    IN  appendInt(w.year, 4) \o <<Ch.minus>> \o appendInt(w.month, 2) \o <<Ch.minus>>
        \o appendInt(w.day, 2) \o <<Ch.T>> \o appendInt(w.hour, 2) \o <<Ch.colon>>
        \o appendInt(w.min, 2) \o <<Ch.colon>> \o appendInt(w.sec, 2) \o frac \o zone

daysIn(month, year) ==
    IF month = 2
    THEN IF year % 4 = 0 /\ (year % 100 # 0 \/ year % 400 = 0) THEN 29 ELSE 28
    ELSE IF month \in {4, 6, 9, 11} THEN 30 ELSE 31

\* the number of digits of s from position i on
RECURSIVE DigitRun(_, _)
DigitRun(s, i) == IF IsDigit(At(s, i)) THEN 1 + DigitRun(s, i + 1) ELSE 0

\* time.parseNanoseconds: the digits s[i..i+n-1] as a fraction of a second, of
\* which only the first nine count
RECURSIVE Nanoseconds(_, _, _, _)
Nanoseconds(s, i, n, scale) ==
    IF n = 0 \/ scale = 0 THEN 0
    ELSE DigitVal(s[i]) * scale + Nanoseconds(s, i + 1, n - 1, scale \div 10)

Num2(s, i) == DigitVal(s[i]) * 10 + DigitVal(s[i + 1])
TwoDigits(s, i) == IsDigit(At(s, i)) /\ IsDigit(At(s, i + 1))

\* time.Parse(time.RFC3339Nano, s): [ok, t].  The year takes four digits, the
\* hour one or two, the fraction is optional and opens with '.' or ',', the
\* zone is 'Z' or a signed hh:mm.
ParseRFC3339Nano(s) ==
    LET hl      == IF IsDigit(At(s, 13)) THEN 2 ELSE 1
        p       == 12 + hl
        q       == p + 6
        hasFrac == At(s, q) \in {Ch.period, Ch.comma} /\ IsDigit(At(s, q + 1))
        fl      == IF hasFrac THEN DigitRun(s, q + 1) ELSE 0
        r       == IF hasFrac THEN q + 1 + fl ELSE q
        isZ     == At(s, r) = Ch.Z
        shape   == /\ \A i \in 1..4 : IsDigit(At(s, i))
                   /\ At(s, 5) = Ch.minus /\ TwoDigits(s, 6)
                   /\ At(s, 8) = Ch.minus /\ TwoDigits(s, 9)
                   /\ At(s, 11) = Ch.T /\ IsDigit(At(s, 12))
                   /\ At(s, p) = Ch.colon /\ TwoDigits(s, p + 1)
                   /\ At(s, p + 3) = Ch.colon /\ TwoDigits(s, p + 4)
                   /\ \/ isZ /\ Len(s) = r
                      \/ /\ At(s, r) \in {Ch.plus, Ch.minus}
                         /\ TwoDigits(s, r + 1) /\ At(s, r + 3) = Ch.colon
                         /\ TwoDigits(s, r + 4) /\ Len(s) = r + 5
        year    == Num2(s, 1) * 100 + Num2(s, 3)
        month   == Num2(s, 6)
        day     == Num2(s, 9)
        hour    == IF hl = 2 THEN Num2(s, 12) ELSE DigitVal(s[12])
        min     == Num2(s, p + 1)
        sec     == Num2(s, p + 4)
        zh      == IF isZ THEN 0 ELSE Num2(s, r + 1)
        zm      == IF isZ THEN 0 ELSE Num2(s, r + 4)
        off     == IF At(s, r) = Ch.minus THEN 0 - (zh * 60 + zm) ELSE zh * 60 + zm
        ranges  == /\ 1 <= month /\ month <= 12
                   /\ 1 <= day /\ day <= daysIn(month, year)
                   /\ hour < 24 /\ min < 60 /\ sec < 60
                   /\ zh <= 24 /\ zm <= 60
        total   == hour * 3600 + min * 60 + sec - off * 60
    IN  IF shape /\ ranges
        THEN [ok |-> TRUE,
              t  |-> Time(DaysFromCivil(year, month, day) + (total \div 86400),
                          total % 86400,
                          Nanoseconds(s, q + 1, fl, 100000000), off)]
        ELSE [ok |-> FALSE, t |-> ZeroTime]

\* base64.RawURLEncoding
B64Alphabet == <<
      "A", "B", "C", "D", "E", "F", "G", "H", "I", "J", "K", "L", "M", "N", "O", "P",
      "Q", "R", "S", "T", "U", "V", "W", "X", "Y", "Z", "a", "b", "c", "d", "e", "f",
      "g", "h", "i", "j", "k", "l", "m", "n", "o", "p", "q", "r", "s", "t", "u", "v",
      "w", "x", "y", "z", "0", "1", "2", "3", "4", "5", "6", "7", "8", "9", "-", "_" >>

B64Chars == {B64Alphabet[i] : i \in 1..64}
B64Index(c) == CHOOSE i \in 0..63 : B64Alphabet[i + 1] = c

RECURSIVE Sextets(_)
Sextets(b) ==
    IF Len(b) = 0 THEN <<>>
    ELSE IF Len(b) = 1 THEN <<b[1] \div 4, (b[1] % 4) * 16>>
    ELSE IF Len(b) = 2
    THEN <<b[1] \div 4, (b[1] % 4) * 16 + b[2] \div 16, (b[2] % 16) * 4>>
    ELSE <<b[1] \div 4, (b[1] % 4) * 16 + b[2] \div 16,
           (b[2] % 16) * 4 + b[3] \div 64, b[3] % 64>>
         \o Sextets(SubSeq(b, 4, Len(b)))

\* base64.RawURLEncoding.EncodeToString
EncodeToString(b) ==
    LET sx == Sextets(b) IN [i \in 1..Len(sx) |-> B64Alphabet[sx[i] + 1]]

RECURSIVE Octets(_)
Octets(x) ==
    IF Len(x) < 2 THEN <<>>
    ELSE IF Len(x) = 2 THEN <<x[1] * 4 + x[2] \div 16>>
    ELSE IF Len(x) = 3
    THEN <<x[1] * 4 + x[2] \div 16, (x[2] % 16) * 16 + x[3] \div 4>>
    ELSE <<x[1] * 4 + x[2] \div 16, (x[2] % 16) * 16 + x[3] \div 4,
           (x[3] % 4) * 64 + x[4]>>
         \o Octets(SubSeq(x, 5, Len(x)))

IsNewline(c) == c \in {"\n", "\r"}
NotNewline(c) == ~IsNewline(c)

\* base64.RawURLEncoding.DecodeString: [ok, bytes].  Line feeds and carriage
\* returns are skipped; the bits left over in the last character are dropped.
DecodeString(cursor) ==
    LET body == SelectSeq(cursor, NotNewline)
    IN  IF (\A i \in 1..Len(body) : body[i] \in B64Chars) /\ Len(body) % 4 # 1
        THEN [ok |-> TRUE, bytes |-> Octets([i \in 1..Len(body) |-> B64Index(body[i])])]
        ELSE [ok |-> FALSE, bytes |-> <<>>]

\* fmt.Errorf("<msg>: %s", cursor): it wraps nothing
CursorError(msg) == [op |-> "", msg |-> msg, wraps |-> {}, id |-> UUIDNil]

\* DecodeCursorToTime as it would be if the result of time.Parse were returned
\* without looking at its error
DecodeCursorIgnoresParseError(cursor) ==
    LET decoded == DecodeString(cursor)
        parsed  == ParseRFC3339Nano(decoded.bytes)
    IN  IF ~decoded.ok
        THEN [t |-> ZeroTime, err |-> CursorError("invalid cursor encoding")]
        ELSE [t |-> parsed.t, err |-> Nil]

DecodeCursorToTime(cursor) ==
    LET decoded == DecodeString(cursor)
        parsed  == ParseRFC3339Nano(decoded.bytes)
    IN  IF ~decoded.ok
        THEN [t |-> ZeroTime, err |-> CursorError("invalid cursor encoding")]
        ELSE IF ~parsed.ok
        THEN [t |-> ZeroTime, err |-> CursorError("invalid cursor time format")]
        ELSE [t |-> parsed.t, err |-> Nil]

EncodeTimeToCursor(t) == EncodeToString(FormatRFC3339Nano(UTC(t)))

(***************************************************************************)
(* The codec on its own: timestamps to encode, cursors to decode           *)
(***************************************************************************)
\* the printable characters of the byte range 32..126, in byte order
Ascii == <<
      " ", "!", "quote", "#", "$", "%", "&", "'", "(", ")", "*", "+", ",", "-", ".", "/",
      "0", "1", "2", "3", "4", "5", "6", "7", "8", "9", ":", ";", "<", "=", ">", "?",
      "@", "A", "B", "C", "D", "E", "F", "G", "H", "I", "J", "K", "L", "M", "N", "O",
      "P", "Q", "R", "S", "T", "U", "V", "W", "X", "Y", "Z", "[", "backslash", "]", "^", "_",
      "backquote", "a", "b", "c", "d", "e", "f", "g", "h", "i", "j", "k", "l", "m", "n", "o",
      "p", "q", "r", "s", "t", "u", "v", "w", "x", "y", "z", "{", "|", "}", "~" >>

ByteOf(c) == 31 + CHOOSE i \in 1..Len(Ascii) : Ascii[i] = c
Bytes(chars) == [i \in 1..Len(chars) |-> ByteOf(chars[i])]

InsertAt(s, i, c) == SubSeq(s, 1, i - 1) \o <<c>> \o SubSeq(s, i, Len(s))
ReplaceAt(s, i, c) == [s EXCEPT ![i] = c]

\* timestamps in and out of the years 0..9999, in UTC and in other locations
CodecTimes ==
    {ZeroTime, T2023, T2023n, T2025, T2026,
     Time(DaysFromCivil(2024, 2, 29), 86399, 999999999, 0),
     Time(DaysFromCivil(2023, 1, 1), 3600, 500000000, 60),
     Time(DaysFromCivil(2023, 1, 1), 0, 120, -330),
     Time(DaysFromCivil(2022, 12, 31), 84600, 0, 60),
     Time(-1, 86399, 0, 0),
     Time(DaysFromCivil(9999, 12, 31), 86399, 999999999, 0),
     Time(DaysFromCivil(9999, 12, 31), 86399, 0, 60),
     Time(DaysFromCivil(10000, 1, 1), 0, 0, 0),
     Time(DaysFromCivil(10000, 1, 1), 1800, 0, -60),
     Time(-367, 0, 0, 0)}

\* decoded texts: what EncodeTimeToCursor writes, other spellings of a
\* timestamp, and texts that are no timestamp
CursorTexts ==
    {
     Bytes(<<"2", "0", "2", "3", "-", "0", "1", "-", "0", "1", "T", "0", "0", ":", "0", "0", ":", "0", "0", "Z">>),
     Bytes(<<"0", "0", "0", "1", "-", "0", "1", "-", "0", "1", "T", "0", "0", ":", "0", "0", ":", "0", "0", "Z">>),
     Bytes(<<"2", "0", "2", "5", "-", "1", "0", "-", "1", "3", "T", "0", "0", ":", "0", "0", ":", "0", "0", ".", "0", "0", "0", "0", "0", "0", "0", "0", "1", "Z">>),
     Bytes(<<"2", "0", "2", "4", "-", "0", "2", "-", "2", "9", "T", "2", "3", ":", "5", "9", ":", "5", "9", ".", "5", "Z">>),
     Bytes(<<"2", "0", "2", "3", "-", "0", "1", "-", "0", "1", "T", "0", "1", ":", "0", "0", ":", "0", "0", "+", "0", "1", ":", "0", "0">>),
     Bytes(<<"2", "0", "2", "3", "-", "0", "1", "-", "0", "1", "T", "0", "0", ":", "0", "0", ":", "0", "0", "-", "0", "5", ":", "3", "0">>),
     Bytes(<<"2", "0", "2", "3", "-", "0", "1", "-", "0", "1", "T", "0", "0", ":", "0", "0", ":", "0", "0", "+", "0", "0", ":", "0", "0">>),
     Bytes(<<"2", "0", "2", "3", "-", "0", "1", "-", "0", "1", "T", "0", "0", ":", "0", "0", ":", "0", "0", ".", "5", "0", "0", "Z">>),
     Bytes(<<"2", "0", "2", "3", "-", "0", "1", "-", "0", "1", "T", "0", "0", ":", "0", "0", ":", "0", "0", ".", "0", "Z">>),
     Bytes(<<"2", "0", "2", "3", "-", "0", "1", "-", "0", "1", "T", "0", "0", ":", "0", "0", ":", "0", "0", ".", "1", "2", "3", "4", "5", "6", "7", "8", "9", "1", "Z">>),
     Bytes(<<"2", "0", "2", "3", "-", "0", "1", "-", "0", "1", "T", "0", "0", ":", "0", "0", ":", "0", "0", ",", "5", "Z">>),
     Bytes(<<"2", "0", "2", "3", "-", "0", "1", "-", "0", "1", "T", "5", ":", "0", "4", ":", "0", "5", "Z">>),
     Bytes(<<"2", "0", "2", "3", "-", "1", "3", "-", "0", "1", "T", "0", "0", ":", "0", "0", ":", "0", "0", "Z">>),
     Bytes(<<"2", "0", "2", "3", "-", "0", "2", "-", "2", "9", "T", "0", "0", ":", "0", "0", ":", "0", "0", "Z">>),
     Bytes(<<"2", "0", "2", "3", "-", "0", "1", "-", "0", "0", "T", "0", "0", ":", "0", "0", ":", "0", "0", "Z">>),
     Bytes(<<"2", "0", "2", "3", "-", "0", "1", "-", "0", "1", "T", "2", "4", ":", "0", "0", ":", "0", "0", "Z">>),
     Bytes(<<"2", "0", "2", "3", "-", "0", "1", "-", "0", "1", "T", "0", "0", ":", "6", "0", ":", "0", "0", "Z">>),
     Bytes(<<"2", "0", "2", "3", "-", "0", "1", "-", "0", "1", "T", "0", "0", ":", "0", "0", ":", "6", "0", "Z">>),
     Bytes(<<"2", "0", "2", "3", "-", "0", "1", "-", "0", "1", "T", "0", "0", ":", "0", "0", ":", "0", "0">>),
     Bytes(<<"2", "0", "2", "3", "-", "0", "1", "-", "0", "1", "T", "0", "0", ":", "0", "0", ":", "0">>),
     Bytes(<<"2", "0", "2", "3", "-", "0", "1", "-", "0", "1", "t", "0", "0", ":", "0", "0", ":", "0", "0", "Z">>),
     Bytes(<<"2", "0", "2", "3", "-", "0", "1", "-", "0", "1", "T", "0", "0", ":", "0", "0", ":", "0", "0", "z">>),
     Bytes(<<"2", "0", "2", "3", "-", "0", "1", "-", "0", "1", " ", "0", "0", ":", "0", "0", ":", "0", "0", "Z">>),
     Bytes(<<"2", "0", "2", "3", "-", "0", "1", "-", "0", "1", "T", "0", "0", ":", "0", "0", ":", "0", "0", "Z", " ">>),
     Bytes(<<"2", "0", "2", "3", "-", "0", "1", "-", "0", "1", "T", "0", "0", ":", "0", "0", ":", "0", "0", ".", "Z">>),
     Bytes(<<"2", "0", "2", "3", "-", "0", "1", "-", "0", "1", "T", "0", "0", ":", "0", "0", ":", "0", "0", "+", "0", "1", "0", "0">>),
     Bytes(<<"2", "0", "2", "3", "-", "1", "-", "0", "1", "T", "0", "0", ":", "0", "0", ":", "0", "0", "Z">>),
     Bytes(<<"1", "0", "0", "0", "0", "-", "0", "1", "-", "0", "1", "T", "0", "0", ":", "0", "0", ":", "0", "0", "Z">>),
     Bytes(<<"-", "0", "0", "0", "1", "-", "0", "1", "-", "0", "1", "T", "0", "0", ":", "0", "0", ":", "0", "0", "Z">>),
     Bytes(<<"2", "0", "2", "3", "-", "0", "1", "-", "0", "1">>),
     Bytes(<<"a", "b", "c">>),
     Bytes(<<>>)
    }

\* a cursor, with the text it carries where that is known
Case(cursor, text) == [cursor |-> cursor, text |-> text]

BadChars == {"#", "=", " ", "+", "/", "."}

\* the character that differs from c only in its two lowest bits
Sibling(c) == B64Alphabet[((B64Index(c) \div 4) * 4) + ((B64Index(c) + 1) % 4) + 1]

CursorCases ==
    LET tok == EncodeToString(Bytes(<<"2", "0", "2", "3", "-", "0", "1", "-", "0", "1", "T", "0", "0", ":", "0", "0", ":", "0", "0", "Z">>))
        txt == Bytes(<<"2", "0", "2", "3", "-", "0", "1", "-", "0", "1", "T", "0", "0", ":", "0", "0", ":", "0", "0", "Z">>)
    IN  {Case(EncodeToString(x), x) : x \in CursorTexts}
        \cup {Case(InsertAt(tok, i, nl), txt) : i \in {1, 14, 28}, nl \in {"\n", "\r"}}
        \cup {Case(ReplaceAt(tok, Len(tok), Sibling(tok[Len(tok)])), txt)}
        \cup {Case(ReplaceAt(tok, i, c), <<>>) : i \in 1..Len(tok), c \in BadChars}
        \cup {Case(SubSeq(tok, 1, Len(tok) - k), SubSeq(txt, 1, ((Len(tok) - k) * 3) \div 4)) :
                k \in 1..4}
        \cup {Case(tok \o <<"A", "A">>, <<>>)}

EncodeCall(t) ==
    /\ call' = [op |-> "EncodeTimeToCursor", t |-> t]
    /\ result' = [cursor |-> EncodeTimeToCursor(t)]
    /\ UNCHANGED <<categories, minLimit, maxLimit, args, products, httpVars>>

\* `minted` holds the timestamp the cursor was encoded from, if it was
DecodeCall(case, minted) ==
    /\ call' = [op |-> "DecodeCursorToTime", cursor |-> case.cursor,
                text |-> case.text, minted |-> minted]
    /\ result' = DecodeCursorToTime(case.cursor)
    /\ UNCHANGED <<categories, minLimit, maxLimit, args, products, httpVars>>

InitCodec ==
    /\ categories = {}
    /\ minLimit = 1
    /\ maxLimit = 1
    /\ call = [op |-> "none"]
    /\ args = [created_at |-> ZeroTime, limit |-> 0]
    /\ result = Nil
    /\ products = {}
    /\ request = [handler |-> "none"]
    /\ response = <<>>
    /\ logged = <<>>
    /\ trace = <<>>
    /\ traversal = NoTraversal
    /\ fetches = 0

NextCodec ==
    \/ \E t \in CodecTimes : EncodeCall(t)
    \/ \E c \in CursorCases : DecodeCall(c, {})
    \/ /\ call.op = "EncodeTimeToCursor"
       /\ DecodeCall(Case(result.cursor, <<>>), {call.t})

SpecCodec == InitCodec /\ [][NextCodec]_vars

\* a repository constructed with any pair of limits, over an empty table
InitLimit ==
    /\ categories = {}
    /\ minLimit \in 1..(MaxCfgLimit + 1)
    /\ maxLimit \in 1..(MaxCfgLimit + 1)
    /\ call = [op |-> "none"]
    /\ args = [created_at |-> ZeroTime, limit |-> 0]
    /\ result = Nil
    /\ products = {}
    /\ request = [handler |-> "none"]
    /\ response = <<>>
    /\ logged = <<>>
    /\ trace = <<>>
    /\ traversal = NoTraversal
    /\ fetches = 0

SpecLimit == InitLimit /\ [][NextList]_vars

(***************************************************************************)
(* handlers: request parameters                                            *)
(***************************************************************************)
ErrCodeInternalServerError == 1600
ErrCodeInvalidFieldFormat == 1002
ErrCodeResourceNotFound == 1300
ErrMessageInvalidFieldFormat == "Invalid field format"
ErrMessageResourceNotFound == "Resource not found"
ErrMessageInternalServerError == "Internal server error"
StatusOK == 200
StatusBadRequest == 400
StatusInternalServerError == 500

\* a query parameter of the request: absent, or a text (a sequence of
\* characters); a path variable likewise, its text a string
Absent == [present |-> FALSE, value |-> <<>>]
Param(text) == [present |-> TRUE, value |-> text]
AbsentVar == [present |-> FALSE, value |-> ""]
Var(text) == [present |-> TRUE, value |-> text]

\* url.Values.Get: the empty text for a key that is absent
Get(p) == IF p.present THEN p.value ELSE <<>>

\* errors.New / fmt.Errorf without %w
PlainError(msg) == [op |-> "", msg |-> msg, wraps |-> {}, id |-> UUIDNil]

\* what uuid.Parse makes of the texts requests carry: the canonical form in
\* either case and the urn form are read, anything else is not
UUIDSpellings ==
    {[text |-> "00000000-0000-0000-0000-000000000000", id |-> UUIDNil],
     [text |-> "f2aa335f-6f91-4d4d-8057-53b0009bc376", id |-> 1],
     [text |-> "F2AA335F-6F91-4D4D-8057-53B0009BC376", id |-> 1],
     [text |-> "urn:uuid:f2aa335f-6f91-4d4d-8057-53b0009bc376", id |-> 1],
     [text |-> "b12f2176-28ca-4acf-85b9-cc97ca1b3cf6", id |-> 2]}

uuidParse(text) ==
    IF \E e \in UUIDSpellings : e.text = text
    THEN [id |-> (CHOOSE e \in UUIDSpellings : e.text = text).id, err |-> Nil]
    ELSE [id |-> UUIDNil, err |-> PlainError("invalid UUID")]

\* ParseUUIDParam as it would be without the test for uuid.Nil
ParseUUIDParamAllowsNil(p) ==
    LET parsed == uuidParse(p.value)
    IN  IF ~p.present \/ p.value = ""
        THEN [id |-> UUIDNil, err |-> PlainError("param not found")]
        ELSE IF parsed.err # Nil
        THEN [id |-> UUIDNil, err |-> parsed.err]
        ELSE [id |-> parsed.id, err |-> Nil]

\* ParseUUIDParam(r, "id"), p the entry of mux.Vars(r) for "id"
ParseUUIDParam(p) ==
    LET parsed == uuidParse(p.value)
    IN  IF ~p.present \/ p.value = ""
        THEN [id |-> UUIDNil, err |-> PlainError("param not found")]
        ELSE IF parsed.err # Nil
        THEN [id |-> UUIDNil, err |-> parsed.err]
        ELSE IF parsed.id = UUIDNil
        THEN [id |-> UUIDNil, err |-> PlainError("invalid id param")]
        ELSE [id |-> parsed.id, err |-> Nil]

DecDigits == <<"0", "1", "2", "3", "4", "5", "6", "7", "8", "9">>
IsDec(c) == \E i \in 1..10 : DecDigits[i] = c
DecVal(c) == (CHOOSE i \in 1..10 : DecDigits[i] = c) - 1

\* a number as the sequence of its decimal digits, without leading zeros
RECURSIVE StripZeros(_)
StripZeros(ds) == IF Len(ds) > 1 /\ ds[1] = 0 THEN StripZeros(Tail(ds)) ELSE ds

\* a > b, for numbers written so
Greater(a, b) ==
    \/ Len(a) > Len(b)
    \/ /\ Len(a) = Len(b)
       /\ \E i \in 1..Len(a) : a[i] > b[i] /\ \A j \in 1..(i - 1) : a[j] = b[j]

RECURSIVE ValueOf(_)
ValueOf(ds) ==
    IF Len(ds) = 0 THEN 0 ELSE ValueOf(SubSeq(ds, 1, Len(ds) - 1)) * 10 + ds[Len(ds)]

\* 1<<32 - 1 and 1<<31
MaxUint32 == <<4, 2, 9, 4, 9, 6, 7, 2, 9, 5>>
Int32Cutoff == <<2, 1, 4, 7, 4, 8, 3, 6, 4, 8>>
MaxInt32 == 2147483647
MinInt32 == (0 - 2147483647) - 1

ErrSyntax == "invalid syntax"
ErrRange == "value out of range"
NumError(kind) == [op |-> "strconv.ParseInt", msg |-> kind, wraps |-> {kind}, id |-> UUIDNil]

\* strconv.ParseUint(s, 10, 32) from position i on, `acc` the number read so
\* far: it stops at a character that is no digit with a syntax error, and as
\* soon as the number exceeds 32 bits with a range error
RECURSIVE ParseUint(_, _, _)
ParseUint(s, i, acc) ==
    IF i > Len(s) THEN [digits |-> acc, err |-> ""]
    ELSE IF ~IsDec(s[i]) THEN [digits |-> <<0>>, err |-> ErrSyntax]
    ELSE LET next == StripZeros(acc \o <<DecVal(s[i])>>)
         IN  IF Greater(next, MaxUint32)
             THEN [digits |-> MaxUint32, err |-> ErrRange]
             ELSE ParseUint(s, i + 1, next)

\* strconv.ParseInt(s, 10, 32), `un` what ParseUint makes of s without its sign
SignedInt(neg, un) ==
    IF un.err = ErrSyntax
    THEN [val |-> 0, err |-> NumError(ErrSyntax)]
    ELSE IF un.err = ErrRange
            \/ (~neg /\ ~Greater(Int32Cutoff, un.digits))
            \/ (neg /\ Greater(un.digits, Int32Cutoff))
    THEN [val |-> IF neg THEN MinInt32 ELSE MaxInt32, err |-> NumError(ErrRange)]
    ELSE IF neg
    THEN [val |-> IF un.digits = Int32Cutoff THEN MinInt32 ELSE 0 - ValueOf(un.digits),
          err |-> Nil]
    ELSE [val |-> ValueOf(un.digits), err |-> Nil]

ParseInt(s) ==
    IF s = <<>> \/ s \in {<<"+">>, <<"-">>}
    THEN [val |-> 0, err |-> NumError(ErrSyntax)]
    ELSE SignedInt(s[1] = "-", ParseUint(IF s[1] \in {"+", "-"} THEN Tail(s) ELSE s, 1, <<0>>))

\* what ParseLimit returns for a limit that is not empty
LimitOf(parsed) ==
    IF parsed.err # Nil
    THEN [val |-> 0, err |-> parsed.err]
    ELSE [val |-> parsed.val, err |-> Nil]

\* ParseLimit as it would be if the empty text went to strconv.ParseInt
ParseLimitNoDefault(query) == LimitOf(ParseInt(Get(query.limit)))

\* ParseLimit as it would be if it kept the value strconv.ParseInt returns
\* with a range error, the nearest 32-bit integer, and dropped the error
ParseLimitSaturating(query) ==
    IF Get(query.limit) = <<>>
    THEN [val |-> 0, err |-> Nil]
    ELSE IF ParseInt(Get(query.limit)).err = NumError(ErrRange)
    THEN [val |-> ParseInt(Get(query.limit)).val, err |-> Nil]
    ELSE LimitOf(ParseInt(Get(query.limit)))

ParseLimit(query) ==
    IF Get(query.limit) = <<>>
    THEN [val |-> 0, err |-> Nil]
    ELSE LimitOf(ParseInt(Get(query.limit)))

\* ParseCursor: what DecodeCursorToTime returns, the zero time with its error
\* or the time with none, is returned as it is
ParseCursor(query) ==
    IF Get(query.cursor) = <<>>
    THEN [t |-> ZeroTime, err |-> Nil]
    ELSE DecodeCursorToTime(Get(query.cursor))

\* logger.LogError(op, err, msg); `info` is what the message quotes
LogEntry(op, err, msg, info) == [op |-> op, err |-> err, msg |-> msg, info |-> info]

\* ParseAndValidatePagination, `cursor` and `limit` what ParseCursor and
\* ParseLimit return; the limit is not looked at when the cursor failed
Validated(cursor, limit, op) ==
    IF cursor.err # Nil
    THEN [createdAfter |-> ZeroTime, limit |-> 0, isValid |-> FALSE,
          logs |-> <<LogEntry(op, cursor.err, "parse cursor error", <<>>)>>]
    ELSE IF limit.err # Nil
    THEN [createdAfter |-> ZeroTime, limit |-> 0, isValid |-> FALSE,
          logs |-> <<LogEntry(op, limit.err, "parse limit error", <<>>)>>]
    ELSE [createdAfter |-> cursor.t, limit |-> limit.val, isValid |-> TRUE,
          logs |-> <<>>]

ParseAndValidatePagination(query, op) ==
    Validated(ParseCursor(query), ParseLimit(query), op)

(***************************************************************************)
(* handlers: responses.  A JSON object is a function of the keys it has.   *)
(***************************************************************************)
JNull == [json |-> "null"]
JArray(xs) == [json |-> "array", items |-> xs]
JObject(o) == [json |-> "object", fields |-> o]

\* a key of an object: with omitempty it is left out when `present` is false
Field(present, key, value) == IF present THEN key :> value ELSE <<>>

\* Time.MarshalJSON fails for a year outside 0..9999
JSONTimeOK(t) == Wall(t).year \in 0..9999

CategoryJSON(c) ==
    JObject([id |-> c.id, name |-> c.name, description |-> c.description,
             createdAt |-> FormatRFC3339Nano(c.created_at)])

\* the values handlers pass as data: a []*Category or a *Category
ListData(slice) == [kind |-> "list", nil |-> slice.nil, rows |-> slice.items]
ObjectData(ptr) ==
    [kind |-> "object", nil |-> ptr = {},
     rows |-> IF ptr = {} THEN <<>> ELSE <<CHOOSE c \in ptr : TRUE>>]

DataJSON(data) ==
    IF data.nil THEN JNull
    ELSE IF data.kind = "list"
    THEN JArray([i \in 1..Len(data.rows) |-> CategoryJSON(data.rows[i])])
    ELSE CategoryJSON(data.rows[1])

\* Pagination{HasMore, NextCursor}; the fields the handlers leave zero are
\* left out of the object, as has_more and next_cursor are when zero
PaginationJSON(p) ==
    JObject(Field(p.HasMore, "has_more", TRUE)
            @@ Field(p.NextCursor # <<>>, "next_cursor", p.NextCursor))

\* the `details any` the handlers pass to WriteErrorResponse: nil
NoDetails == {}

\* HTTPErrorResponse{Status, Error{Code, Message, Details}}; Details holds the
\* value of the interface, or nothing when it is nil
HTTPErrorResponse(code, message, details) ==
    [Status |-> "error", Error |-> [Code |-> code, Message |-> message, Details |-> details]]

HTTPSuccessResponse(message, data, pagination) ==
    [Status |-> "success", Data |-> data, Pagination |-> pagination, Message |-> message]

\* a `details any` encoding/json has no encoding for, a channel
UnsupportedValue == [type |-> "chan int"]
Unsupported(d) == "type" \in DOMAIN d

\* json.NewEncoder(&buf).Encode(details): [ok, json, err]
Encode(details) ==
    IF details.Status = "error" /\ \E d \in details.Error.Details : Unsupported(d)
    THEN [ok |-> FALSE, json |-> JNull, err |-> "json: unsupported type: chan int"]
    ELSE IF details.Status = "error"
    THEN [ok |-> TRUE, err |-> "",
          json |-> JObject([status |-> "error",
                            error |-> JObject([code |-> details.Error.Code,
                                               message |-> details.Error.Message]
                                              @@ Field(details.Error.Details # {}, "details",
                                                       CHOOSE d \in details.Error.Details :
                                                           TRUE))])]
    ELSE IF \E i \in 1..Len(details.Data.rows) : ~JSONTimeOK(details.Data.rows[i].created_at)
    THEN [ok |-> FALSE, json |-> JNull, err |-> "json: error calling MarshalJSON"]
    ELSE [ok |-> TRUE, err |-> "",
          json |-> JObject(("status" :> "success")
                           @@ ("data" :> DataJSON(details.Data))
                           @@ (IF details.Pagination = {} THEN <<>>
                               ELSE "pagination" :>
                                    PaginationJSON(CHOOSE p \in details.Pagination : TRUE))
                           @@ ("message" :> details.Message))]

WriteOutcomes == {"ok", "writeErr"}

\* what reaches the http.ResponseWriter, in order
HeaderSet == [ev |-> "Header.Set", key |-> "Content-Type", value |-> "application/json"]
WriteHeader(statusCode) == [ev |-> "WriteHeader", status |-> statusCode]
Write(body, wr) == [ev |-> "Write", body |-> body, failed |-> wr = "writeErr"]

\* a step of a handler: a call of LogError, of the repository or of the
\* http.ResponseWriter
Did(kind, what) == [kind |-> kind, what |-> what]

\* a response, with one more entry ahead of its logs
Logged(entry, w) ==
    [events |-> w.events, logs |-> <<entry>> \o w.logs,
     trace |-> <<Did("LogError", entry)>> \o w.trace]

\* Written as it would be if the body were written a second time after a
\* write that failed
WrittenWithRetry(events, logs) ==
    [events |-> IF logs = <<>> THEN events ELSE Append(events, events[Len(events)]),
     logs |-> logs,
     trace |-> [i \in 1..Len(events) |-> Did(events[i].ev, events[i])]
               \o [i \in 1..Len(logs) |-> Did("LogError", logs[i])]
               \o (IF logs = <<>> THEN <<>>
                   ELSE <<Did(events[Len(events)].ev, events[Len(events)])>>)]

\* what WriteResponse does once the body is encoded: the header, the status
\* and the body go to the ResponseWriter, and a failed write is logged
Written(events, logs) ==
    [events |-> events, logs |-> logs,
     trace |-> [i \in 1..Len(events) |-> Did(events[i].ev, events[i])]
               \o [i \in 1..Len(logs) |-> Did("LogError", logs[i])]]

\* WriteResponse and WriteErrorResponse: [events, logs]; `wr` is what becomes
\* of the write of the body, `enc` what json.Encoder.Encode returned
RECURSIVE WriteEncoded(_, _, _, _)
WriteErrorResponse(statusCode, code, message, details, op, wr) ==
    WriteEncoded(statusCode, Encode(HTTPErrorResponse(code, message, details)), op, wr)

\* the response `fallback`, after the header and the status of a response
\* whose body then failed to encode have been written, and the failure logged
Unbuffered(statusCode, entry, fallback) ==
    [events |-> <<HeaderSet, WriteHeader(statusCode)>> \o fallback.events,
     logs   |-> <<entry>> \o fallback.logs,
     trace  |-> <<Did("Header.Set", HeaderSet), Did("WriteHeader", WriteHeader(statusCode)),
                  Did("LogError", entry)>> \o fallback.trace]

\* WriteEncoded as it would be if the body were encoded straight to the
\* ResponseWriter, after the header and the status have been written
WriteEncodedUnbuffered(statusCode, enc, op, wr) ==
    IF ~enc.ok
    THEN Unbuffered(statusCode,
                    LogEntry(op, PlainError(enc.err),
                             "error encoding json response", <<>>),
                    WriteErrorResponse(StatusInternalServerError, ErrCodeInternalServerError,
                                       ErrMessageInternalServerError, NoDetails, op, wr))
    ELSE Written(<<HeaderSet, WriteHeader(statusCode), Write(enc.json, wr)>>,
                 IF wr = "writeErr"
                 THEN <<LogEntry(op, PlainError("write failed"),
                                 "error writing response to client", <<>>)>>
                 ELSE <<>>)

WriteEncoded(statusCode, enc, op, wr) ==
    IF ~enc.ok
    THEN Logged(LogEntry(op, PlainError(enc.err),
                         "error encoding json response", <<>>),
                WriteErrorResponse(StatusInternalServerError, ErrCodeInternalServerError,
                                   ErrMessageInternalServerError, NoDetails, op, wr))
    ELSE Written(<<HeaderSet, WriteHeader(statusCode), Write(enc.json, wr)>>,
                 IF wr = "writeErr"
                 THEN <<LogEntry(op, PlainError("write failed"),
                                 "error writing response to client", <<>>)>>
                 ELSE <<>>)

WriteResponse(statusCode, details, op, wr) ==
    WriteEncoded(statusCode, Encode(details), op, wr)

WriteSuccessResponse(statusCode, message, data, pagination, op, wr) ==
    WriteResponse(statusCode, HTTPSuccessResponse(message, data, pagination), op, wr)

(***************************************************************************)
(* handlers/category_handler.go.  A request is received, then served by    *)
(* its handler; h.repo is the CategoryRepo over the table or, for          *)
(* GetCategoryByID, a test double that returns what it was told to.        *)
(***************************************************************************)
T10000 == Time(DaysFromCivil(10000, 1, 1), 0, 0, 0)

StubOutcomes ==
    {"stubFound", "stubNotFound", "stubErrNotFound", "stubFailure", "stubQueryError",
     "stubYear10000"}

\* what the database does with a statement of a request: as for the
\* repository alone, or the deadline of the request's context passes
Deadline == {"deadline"}

RepoGetCategoryByID(rows, id, out) ==
    IF out \in QueryOutcomes \cup Deadline THEN GetCategoryByIDResult(rows, id, out)
    ELSE IF out = "stubFound" THEN [category |-> {Category(id, "A", T2023)}, err |-> Nil]
    ELSE IF out = "stubYear10000" THEN [category |-> {Category(id, "A", T10000)}, err |-> Nil]
    ELSE IF out = "stubNotFound"
    THEN [category |-> {}, err |-> ErrorfID("getCategoryByID", "id", ErrNotFound, id)]
    ELSE IF out = "stubErrNotFound" THEN [category |-> {}, err |-> Sentinel(ErrNotFound)]
    ELSE IF out = "stubQueryError" THEN [category |-> {}, err |-> PlainError("db query error")]
    ELSE [category |-> {}, err |-> Errorf("getCategoryByID", "select query failed", DriverErr)]

\* t.Format(time.RFC3339): as RFC3339Nano, without the fraction
FormatRFC3339(t) == FormatRFC3339Nano([t EXCEPT !.nsec = 0])

GetCategoryOp == "CategoryHandler.GetCategory"
ListCategoriesOp == "CategoryHandler.ListCategories"

\* Handled as it would be if the handler logged its error after writing the
\* response
HandledLoggedLast(call_, args_, result_, entry, w) ==
    [call |-> call_, args |-> args_, result |-> result_,
     logs |-> w.logs \o entry, events |-> w.events,
     trace |-> (IF call_.op = "none" THEN <<>> ELSE <<Did("repo", call_)>>)
               \o w.trace
               \o [i \in 1..Len(entry) |-> Did("LogError", entry[i])]]

\* what a handler did: the call it made of the repository with the arguments
\* bound and the result, what it logged, what it wrote
Handled(call_, args_, result_, entry, w) ==
    [call |-> call_, args |-> args_, result |-> result_,
     logs |-> entry \o w.logs, events |-> w.events,
     trace |-> (IF call_.op = "none" THEN <<>> ELSE <<Did("repo", call_)>>)
               \o [i \in 1..Len(entry) |-> Did("LogError", entry[i])]
               \o w.trace]

NoCall == [op |-> "none"]
NoArgs == [created_at |-> ZeroTime, limit |-> 0]

\* GetCategoryFound as it would be if the error were compared with ErrNotFound
\* by ==, which an error that wraps ErrNotFound does not pass
GetCategoryFoundByEquality(id, out, found, wr) ==
    IF found.err # Nil
    THEN Handled([op |-> "GetCategoryByID", id |-> id, db |-> out], NoArgs, found,
                 <<LogEntry(GetCategoryOp, found.err, "failed to fetch category from repo",
                            <<id>>)>>,
                 IF found.err = Sentinel(ErrNotFound)
                 THEN WriteErrorResponse(StatusBadRequest, ErrCodeResourceNotFound,
                                         ErrMessageResourceNotFound, NoDetails, GetCategoryOp, wr)
                 ELSE WriteErrorResponse(StatusInternalServerError,
                                         ErrCodeInternalServerError,
                                         ErrMessageInternalServerError, NoDetails,
                                         GetCategoryOp, wr))
    ELSE Handled([op |-> "GetCategoryByID", id |-> id, db |-> out], NoArgs, found, <<>>,
                 WriteSuccessResponse(StatusOK, "Category fetched successfully",
                                      ObjectData(found.category), {}, GetCategoryOp, wr))

\* GetCategory once the repository has returned `found`
GetCategoryFound(id, out, found, wr) ==
    IF found.err # Nil
    THEN Handled([op |-> "GetCategoryByID", id |-> id, db |-> out], NoArgs, found,
                 <<LogEntry(GetCategoryOp, found.err, "failed to fetch category from repo",
                            <<id>>)>>,
                 IF ErrorsIs(found.err, ErrNotFound)
                 THEN WriteErrorResponse(StatusBadRequest, ErrCodeResourceNotFound,
                                         ErrMessageResourceNotFound, NoDetails, GetCategoryOp, wr)
                 ELSE WriteErrorResponse(StatusInternalServerError,
                                         ErrCodeInternalServerError,
                                         ErrMessageInternalServerError, NoDetails,
                                         GetCategoryOp, wr))
    ELSE Handled([op |-> "GetCategoryByID", id |-> id, db |-> out], NoArgs, found, <<>>,
                 WriteSuccessResponse(StatusOK, "Category fetched successfully",
                                      ObjectData(found.category), {}, GetCategoryOp, wr))

\* GetCategory once ParseUUIDParam has returned `parsed`
GetCategoryParsed(rows, parsed, out, wr) ==
    IF parsed.err # Nil
    THEN Handled(NoCall, NoArgs, Nil,
                 <<LogEntry(GetCategoryOp, parsed.err, "error parsing id from uuid param",
                            <<>>)>>,
                 WriteErrorResponse(StatusBadRequest, ErrCodeInvalidFieldFormat,
                                    ErrMessageInvalidFieldFormat, NoDetails, GetCategoryOp, wr))
    ELSE GetCategoryFound(parsed.id, out, RepoGetCategoryByID(rows, parsed.id, out), wr)

\* CategoryHandler.GetCategory
GetCategoryHandled(rows, req, out, wr) ==
    GetCategoryParsed(rows, ParseUUIDParam(req.vars.id), out, wr)

\* ListCategoriesListed as it would be if the repository error were handed to
\* WriteErrorResponse as details
ListCategoriesListedDetailed(invoked, bound, listed, wr) ==
    IF listed.Error # Nil
    THEN Handled(invoked, bound, listed,
                 <<LogEntry(ListCategoriesOp, listed.Error,
                            "error fetching list of categories",
                            <<FormatRFC3339(invoked.createdAfter), invoked.limit>>)>>,
                 WriteErrorResponse(StatusInternalServerError, ErrCodeInternalServerError,
                                    ErrMessageInternalServerError, {listed.Error},
                                    ListCategoriesOp, wr))
    ELSE Handled(invoked, bound, listed, <<>>,
                 WriteSuccessResponse(StatusOK, "Categories fetched successfully",
                                      ListData(listed.Categories),
                                      {[HasMore |-> listed.HasMore,
                                        NextCursor |-> EncodeTimeToCursor(listed.NextCursor)]},
                                      ListCategoriesOp, wr))

\* ListCategoriesListed as it would be if a failed call of the repository were
\* made a second time before the error is handled
ListCategoriesListedRetried(invoked, bound, listed, wr) ==
    IF listed.Error # Nil
    THEN [Handled(invoked, bound, listed,
                  <<LogEntry(ListCategoriesOp, listed.Error,
                             "error fetching list of categories",
                             <<FormatRFC3339(invoked.createdAfter), invoked.limit>>)>>,
                  WriteErrorResponse(StatusInternalServerError, ErrCodeInternalServerError,
                                     ErrMessageInternalServerError, NoDetails,
                                     ListCategoriesOp, wr))
          EXCEPT !.trace = <<Did("repo", invoked)>> \o @]
    ELSE Handled(invoked, bound, listed, <<>>,
                 WriteSuccessResponse(StatusOK, "Categories fetched successfully",
                                      ListData(listed.Categories),
                                      {[HasMore |-> listed.HasMore,
                                        NextCursor |-> EncodeTimeToCursor(listed.NextCursor)]},
                                      ListCategoriesOp, wr))

\* ListCategories once the repository has returned `listed`
ListCategoriesListed(invoked, bound, listed, wr) ==
    IF listed.Error # Nil
    THEN Handled(invoked, bound, listed,
                 <<LogEntry(ListCategoriesOp, listed.Error,
                            "error fetching list of categories",
                            <<FormatRFC3339(invoked.createdAfter), invoked.limit>>)>>,
                 WriteErrorResponse(StatusInternalServerError, ErrCodeInternalServerError,
                                    ErrMessageInternalServerError, NoDetails,
                                    ListCategoriesOp, wr))
    ELSE Handled(invoked, bound, listed, <<>>,
                 WriteSuccessResponse(StatusOK, "Categories fetched successfully",
                                      ListData(listed.Categories),
                                      {[HasMore |-> listed.HasMore,
                                        NextCursor |-> EncodeTimeToCursor(listed.NextCursor)]},
                                      ListCategoriesOp, wr))

\* ListCategories once ParseAndValidatePagination has returned `parsed`
ListCategoriesParsed(rows, min, max, parsed, db, wr) ==
    IF ~parsed.isValid
    THEN Handled(NoCall, NoArgs, Nil, parsed.logs,
                 WriteErrorResponse(StatusBadRequest, ErrCodeInvalidFieldFormat,
                                    ErrMessageInvalidFieldFormat, NoDetails, ListCategoriesOp, wr))
    ELSE ListCategoriesListed(
             [op |-> "ListCategories", createdAfter |-> parsed.createdAfter,
              limit |-> parsed.limit, db |-> db],
             ListArgs(parsed.createdAfter, parsed.limit, min, max),
             ListCategoriesResult(rows, parsed.createdAfter, parsed.limit, min, max, db),
             wr)

\* CategoryHandler.ListCategories
ListCategoriesHandled(rows, min, max, req, db, wr) ==
    ListCategoriesParsed(rows, min, max,
                         ParseAndValidatePagination(req.query, ListCategoriesOp), db, wr)

\* the router hands a request to its handler: nothing is written, logged or
\* asked of the repository for it yet
Receive(req) ==
    /\ request.served
    /\ request' = req
    /\ response' = <<>>
    /\ logged' = <<>>
    /\ trace' = <<>>
    /\ call' = [op |-> "none"]
    /\ args' = [created_at |-> ZeroTime, limit |-> 0]
    /\ result' = Nil
    /\ UNCHANGED <<categories, minLimit, maxLimit, products, traversal, fetches>>

\* what a handler did becomes the state
Served(h) ==
    /\ call' = h.call
    /\ args' = h.args
    /\ result' = h.result
    /\ logged' = h.logs
    /\ trace' = h.trace
    /\ response' = h.events
    /\ request' = [request EXCEPT !.served = TRUE]
    /\ UNCHANGED <<categories, minLimit, maxLimit, products, traversal, fetches>>

ServeGetCategory(out, wr) ==
    /\ request.handler = "GetCategory" /\ ~request.served
    /\ Served(GetCategoryHandled(categories, request, out, wr))

ServeListCategories(db, wr) ==
    /\ request.handler = "ListCategories" /\ ~request.served
    /\ Served(ListCategoriesHandled(categories, minLimit, maxLimit, request, db, wr))

\* the id path variable of the requests
IdVars ==
    {AbsentVar, Var(""), Var("abc"), Var("f2aa335f-6f91-4d4d-8057-53b0009bc37g"),
     Var("00000000-0000-0000-0000-000000000000"),
     Var("f2aa335f-6f91-4d4d-8057-53b0009bc376"),
     Var("urn:uuid:f2aa335f-6f91-4d4d-8057-53b0009bc376"),
     Var("b12f2176-28ca-4acf-85b9-cc97ca1b3cf6")}

\* the cursors of the requests, with the texts they carry: the cursors of
\* 0001-01-01T00:00:00Z, 2023-01-01T00:00:00Z and 2025-10-13T00:00:00Z, of
\* 2023-01-01T01:00:00+01:00 and of 2023-13-01T00:00:00Z, one with a character
\* that is not of the alphabet, and one that carries no timestamp
HandlerCursorCases ==
    {
     Case(<<"M", "D", "A", "w", "M", "S", "0", "w", "M", "S", "0", "w", "M", "V", "Q", "w", "M", "D", "o", "w", "M", "D", "o", "w", "M", "F", "o">>,
          <<48, 48, 48, 49, 45, 48, 49, 45, 48, 49, 84, 48, 48, 58, 48, 48, 58, 48, 48, 90>>),
     Case(<<"M", "j", "A", "y", "M", "y", "0", "w", "M", "S", "0", "w", "M", "V", "Q", "w", "M", "D", "o", "w", "M", "D", "o", "w", "M", "F", "o">>,
          <<50, 48, 50, 51, 45, 48, 49, 45, 48, 49, 84, 48, 48, 58, 48, 48, 58, 48, 48, 90>>),
     Case(<<"M", "j", "A", "y", "N", "S", "0", "x", "M", "C", "0", "x", "M", "1", "Q", "w", "M", "D", "o", "w", "M", "D", "o", "w", "M", "F", "o">>,
          <<50, 48, 50, 53, 45, 49, 48, 45, 49, 51, 84, 48, 48, 58, 48, 48, 58, 48, 48, 90>>),
     Case(<<"M", "j", "A", "y", "M", "y", "0", "w", "M", "S", "0", "w", "M", "V", "Q", "w", "M", "T", "o", "w", "M", "D", "o", "w", "M", "C", "s", "w", "M", "T", "o", "w", "M", "A">>,
          <<50, 48, 50, 51, 45, 48, 49, 45, 48, 49, 84, 48, 49, 58, 48, 48, 58, 48, 48, 43, 48, 49, 58, 48, 48>>),
     Case(<<"M", "j", "A", "y", "M", "y", "0", "x", "M", "y", "0", "w", "M", "V", "Q", "w", "M", "D", "o", "w", "M", "D", "o", "w", "M", "F", "o">>,
          <<50, 48, 50, 51, 45, 49, 51, 45, 48, 49, 84, 48, 48, 58, 48, 48, 58, 48, 48, 90>>),
     Case(<<"M", "j", "#", "y", "M", "y", "0", "w", "M", "S", "0", "w", "M", "V", "Q", "w", "M", "D", "o", "w", "M", "D", "o", "w", "M", "F", "o">>,
          <<>>),
     Case(<<"M", "j", "A", "y", "M", "y", "0", "w", "M", "S", "0", "w", "M", "V", "Q", "w", "M", "D", "o", "w", "M", "D", "o", "w", "e", "f", "f">>,
          <<50, 48, 50, 51, 45, 48, 49, 45, 48, 49, 84, 48, 48, 58, 48, 48, 58, 48, 121, 247>>)
    }

CursorParams == {Absent, Param(<<>>)} \cup {Param(c.cursor) : c \in HandlerCursorCases}

LimitParams ==
    {Absent, Param(<<>>),
     Param(<<"0">>),
     Param(<<"1">>),
     Param(<<"2">>),
     Param(<<"3">>),
     Param(<<"-", "1">>),
     Param(<<"+", "2">>),
     Param(<<"0", "0", "7">>),
     Param(<<"a", "b">>),
     Param(<<"1", "a">>),
     Param(<<"1", ".", "5">>),
     Param(<<"-">>),
     Param(<<"2", "1", "4", "7", "4", "8", "3", "6", "4", "7">>),
     Param(<<"2", "1", "4", "7", "4", "8", "3", "6", "4", "8">>),
     Param(<<"-", "2", "1", "4", "7", "4", "8", "3", "6", "4", "8">>),
     Param(<<"-", "2", "1", "4", "7", "4", "8", "3", "6", "4", "9">>),
     Param(<<"9", "9", "9", "9", "9", "9", "9", "9", "9", "9", "9">>)
    }

Requests ==
    {[handler |-> "GetCategory", vars |-> [id |-> v], served |-> FALSE] : v \in IdVars}
    \cup {[handler |-> "ListCategories", query |-> [cursor |-> c, limit |-> l],
           served |-> FALSE] : c \in CursorParams, l \in LimitParams}

\* the tables the handlers are served from
HandlerTables ==
    {{},
     {Category(1, "A", T2023)},
     {Category(1, "A", T2023), Category(2, "A", T2025), Category(3, "B", T2025)},
     {Category(1, "A", T2023), Category(2, "A", T10000)}}

InitHandler ==
    /\ categories \in HandlerTables
    /\ minLimit \in CfgLimits
    /\ maxLimit \in CfgLimits
    /\ call = [op |-> "none"]
    /\ args = [created_at |-> ZeroTime, limit |-> 0]
    /\ result = Nil
    /\ products = {}
    /\ request = [handler |-> "none", served |-> TRUE]
    /\ response = <<>>
    /\ logged = <<>>
    /\ trace = <<>>
    /\ traversal = NoTraversal
    /\ fetches = 0

NextHandler ==
    \/ \E req \in Requests : Receive(req)
    \/ \E out \in QueryOutcomes \cup Deadline \cup StubOutcomes, wr \in WriteOutcomes :
          ServeGetCategory(out, wr)
    \/ \E db \in DbOutcomes \cup Deadline, wr \in WriteOutcomes : ServeListCategories(db, wr)

SpecHandler == InitHandler /\ [][NextHandler]_vars

\* requests of each kind: with and without an id that parses, with and
\* without a cursor and a limit that parse
FewRequests ==
    {r \in Requests :
        IF r.handler = "GetCategory"
        THEN r.vars.id \in {AbsentVar, Var("00000000-0000-0000-0000-000000000000"),
                            Var("f2aa335f-6f91-4d4d-8057-53b0009bc376")}
        ELSE /\ r.query.limit \in {Absent, Param(<<"2">>), Param(<<"a", "b">>)}
             /\ r.query.cursor \in
                  {Absent} \cup {Param(c.cursor) : c \in {d \in HandlerCursorCases :
                                                             Len(d.text) # 20}}}

NextHandlerFair ==
    \/ \E req \in FewRequests : Receive(req)
    \/ \E out \in QueryOutcomes \cup Deadline \cup StubOutcomes, wr \in WriteOutcomes :
          ServeGetCategory(out, wr)
    \/ \E db \in DbOutcomes \cup Deadline, wr \in WriteOutcomes : ServeListCategories(db, wr)

\* the handler of the request in flight returns
HandlerReturns == ~request.served /\ request' = [request EXCEPT !.served = TRUE]

\* net/http runs the handler of a received request in a goroutine of its own,
\* to its end: a handler that has been entered returns
SpecHandlerFair ==
    /\ InitHandler
    /\ [][NextHandlerFair]_vars
    /\ WF_request(HandlerReturns)

(***************************************************************************)
(* A client of GET /categories that pages through the list: it starts      *)
(* without a cursor and sends the next_cursor of each response back as the *)
(* cursor of its next request, until a response has no has_more.  The      *)
(* client has no counterpart in the repository; what it does is what the   *)
(* API documents of cursor and limit.                                      *)
(***************************************************************************)
\* the limit parameter the client sends with every request of a traversal
TraversalLimits == {<<>>, <<"1">>, <<"2">>, <<"3">>}

\* the request of the next page
PageRequest(t) ==
    [handler |-> "ListCategories",
     query   |-> [cursor |-> IF t.cursor = <<>> THEN Absent ELSE Param(t.cursor),
                  limit  |-> IF t.limit = <<>> THEN Absent ELSE Param(t.limit)],
     served  |-> FALSE]

\* the ids of the categories in the data of a response body
IdsOf(body) == {body.fields.data.items[i].fields.id : i \in 1..Len(body.fields.data.items)}

\* the traversal after the client has read the response `events`: on a 200
\* it notes the categories of the page and takes the next cursor, and it is
\* done when the pagination has no has_more that is true
Turned(t, events) ==
    IF events[2].status # StatusOK THEN [t EXCEPT !.state = "failed"]
    ELSE [state    |-> IF "has_more" \in DOMAIN events[3].body.fields.pagination.fields
                       THEN "open" ELSE "done",
          limit    |-> t.limit,
          cursor   |-> events[3].body.fields.pagination.fields.next_cursor,
          seen     |-> t.seen \cup IdsOf(events[3].body),
          repeated |-> t.repeated \cup (t.seen \cap IdsOf(events[3].body))]

\* the client starts a traversal, with the empty cursor
StartTraversal(limit) ==
    /\ traversal.state # "open"
    /\ traversal' = [state |-> "open", limit |-> limit, cursor |-> <<>>,
                     seen |-> {}, repeated |-> {}]
    /\ fetches' = 0
    /\ UNCHANGED <<categories, minLimit, maxLimit, call, args, result, products,
                   request, response, logged, trace>>

\* the client requests the next page: ListCategories serves the request from
\* the table as it is now, and the client reads the response
FetchPage ==
    /\ traversal.state = "open"
    /\ \E h \in {ListCategoriesHandled(categories, minLimit, maxLimit,
                                        PageRequest(traversal), "ok", "ok")} :
          /\ call' = h.call
          /\ args' = h.args
          /\ result' = h.result
          /\ logged' = h.logs
          /\ trace' = h.trace
          /\ response' = h.events
          /\ traversal' = Turned(traversal, h.events)
    /\ request' = [PageRequest(traversal) EXCEPT !.served = TRUE]
    /\ fetches' = 1 - fetches
    /\ UNCHANGED <<categories, minLimit, maxLimit, products>>

InitTraversal ==
    /\ categories \in Tables
    /\ minLimit \in CfgLimits
    /\ maxLimit \in CfgLimits
    /\ call = [op |-> "none"]
    /\ args = [created_at |-> ZeroTime, limit |-> 0]
    /\ result = Nil
    /\ products = {}
    /\ request = [handler |-> "none", served |-> TRUE]
    /\ response = <<>>
    /\ logged = <<>>
    /\ trace = <<>>
    /\ traversal = NoTraversal
    /\ fetches = 0

\* traversals of a table that does not change
NextTraversal ==
    \/ \E limit \in TraversalLimits : StartTraversal(limit)
    \/ FetchPage

SpecTraversal == InitTraversal /\ [][NextTraversal]_vars

\* the client has fetched one more page
PageFetched == traversal.state = "open" /\ fetches' = 1 - fetches

\* a client that is in a traversal goes on with it
SpecTraversalFair == SpecTraversal /\ WF_fetches(PageFetched)

(***************************************************************************)
(* Traversals of a table that other clients write to between the pages.    *)
(* The categories of StableIds are stored from the start and are not       *)
(* created or deleted; the others come and go.                             *)
(***************************************************************************)
StableIds == {1, 3}
VolatileIds == {2}

\* the tables a traversal can start from: every stable category, and any of
\* the others
WrittenTables ==
    {rows \in SUBSET {Category(id, "A", t) : id \in StableIds \cup VolatileIds,
                                             t \in StoreTimes} :
        /\ \A r1, r2 \in rows : r1.id = r2.id => r1 = r2
        /\ StableIds \subseteq {r.id : r \in rows}}

InitWrites ==
    /\ categories \in WrittenTables
    /\ minLimit = 1
    /\ maxLimit = MaxCfgLimit
    /\ call = [op |-> "none"]
    /\ args = [created_at |-> ZeroTime, limit |-> 0]
    /\ result = Nil
    /\ products = {}
    /\ request = [handler |-> "none", served |-> TRUE]
    /\ response = <<>>
    /\ logged = <<>>
    /\ trace = <<>>
    /\ traversal = NoTraversal
    /\ fetches = 0

NextWrites ==
    \/ \E limit \in {<<"1">>, <<"2">>} : StartTraversal(limit)
    \/ FetchPage
    \/ \E id \in VolatileIds, t \in StoreTimes : CreateCategory(Category(id, "A", t), "ok")
    \/ \E id \in StableIds \cup VolatileIds : UpdateCategory(Category(id, "B", T2025), "ok")
    \/ \E id \in VolatileIds : DeleteCategory(id, "ok")

SpecWrites == InitWrites /\ [][NextWrites]_vars

(***************************************************************************)
(* Properties of ListCategories                                            *)
(***************************************************************************)
\* the last call was a ListCategories that returned no error
Listed == call.op = "ListCategories" /\ result.Error = Nil

\* the stored rows with created_at >= cursor
AtOrAfter(cursor) == {r \in categories : ~Before(r.created_at, cursor)}

\* the value of [lo, hi] nearest to l
Clamp(l, lo, hi) ==
    CHOOSE x \in lo..hi :
        \A y \in lo..hi : (IF x < l THEN l - x ELSE x - l) <= (IF y < l THEN l - y ELSE y - l)

Page == result.Categories.items
PageRows == {Page[i] : i \in 1..Len(Page)}

\* a precedes b in (created_at, id) order
Precedes(a, b) ==
    \/ Before(a.created_at, b.created_at)
    \/ a.created_at = b.created_at /\ a.id < b.id

EffectiveLimit == args.limit - 1

\* C4 as stated: a request below minLimit uses minLimit, a request above
\* maxLimit uses maxLimit, a request inside the range is used unchanged, and
\* for minLimit <= maxLimit the limit used lies in [minLimit, maxLimit].
C4_AsStated ==
    call.op = "ListCategories" =>
        /\ call.limit < minLimit => EffectiveLimit = minLimit
        /\ call.limit > maxLimit => EffectiveLimit = maxLimit
        /\ (minLimit <= call.limit /\ call.limit <= maxLimit) => EffectiveLimit = call.limit
        /\ minLimit <= maxLimit => EffectiveLimit \in minLimit..maxLimit

\* C4 (amended): a request below minLimit uses minLimit, a request above
\* maxLimit that is not below minLimit uses maxLimit, a request inside the
\* range is used unchanged, and for minLimit <= maxLimit the limit used lies
\* in [minLimit, maxLimit].
C4_Clamp ==
    call.op = "ListCategories" =>
        /\ call.limit < minLimit => EffectiveLimit = minLimit
        /\ (call.limit > maxLimit /\ call.limit >= minLimit) => EffectiveLimit = maxLimit
        /\ (minLimit <= call.limit /\ call.limit <= maxLimit) => EffectiveLimit = call.limit
        /\ minLimit <= maxLimit => EffectiveLimit \in minLimit..maxLimit

C4_Witness ==
    /\ call.op = "ListCategories"
    /\ minLimit < maxLimit
    /\ call.limit > maxLimit
    /\ EffectiveLimit = maxLimit

\* C6: when no product row matches and the query succeeds, ListProducts
\* returns a non-nil empty list and a nil error.
C6_ProductsEmptyList ==
    (call.op = "ListProducts" /\ call.db # "queryErr"
        /\ {r \in products : r.id > call.id} = {}) =>
        /\ result.err = Nil
        /\ ~result.products.nil
        /\ result.products.items = <<>>

\* C5: when no stored row has created_at >= cursor and the query succeeds,
\* ListCategories returns a non-nil empty list, HasMore = FALSE, the zero time
\* as NextCursor and no error.
C5_EmptyList ==
    (call.op = "ListCategories" /\ call.db # "queryErr"
        /\ AtOrAfter(call.createdAfter) = {}) =>
        /\ result.Error = Nil
        /\ ~result.Categories.nil
        /\ result.Categories.items = <<>>
        /\ ~result.HasMore
        /\ result.NextCursor = ZeroTime

C5_Witness ==
    /\ call.op = "ListCategories" /\ call.db = "ok"
    /\ categories # {}
    /\ AtOrAfter(call.createdAfter) = {}
    /\ ~result.Categories.nil

(***************************************************************************)
(* The cursor codec                                                        *)
(***************************************************************************)
YearOf(t) == CivilFromDays(UTC(t).day).year

\* C7: for every timestamp t, DecodeCursorToTime(EncodeTimeToCursor(t))
\* succeeds and yields the instant t.
C7_RoundTrip ==
    (call.op = "DecodeCursorToTime" /\ call.minted # {})
        => /\ result.err = Nil
           /\ \A t \in call.minted : SameInstant(result.t, t)

\* The round trip of the timestamps whose year in UTC has four digits.
RoundTripInRange ==
    (call.op = "DecodeCursorToTime" /\ call.minted # {})
        => \A t \in call.minted :
              YearOf(t) \in 0..9999 => result.err = Nil /\ SameInstant(result.t, t)

RoundTripInRange_Witness ==
    /\ call.op = "DecodeCursorToTime"
    /\ \E t \in call.minted : UTC(t) # t /\ t.nsec # 0 /\ result.err = Nil

\* the characters of the URL-safe alphabet, by their bytes
UrlSafe(c) ==
    \/ c \in {"-", "_"}
    \/ /\ c \in {Ascii[i] : i \in 1..Len(Ascii)}
       /\ ByteOf(c) \in (48..57) \cup (65..90) \cup (97..122)

\* unpadded base64 text: characters of the alphabet only, and a length that
\* whole bytes can have
ValidB64(cursor) ==
    /\ \A i \in 1..Len(cursor) : UrlSafe(cursor[i])
    /\ Len(cursor) % 4 # 1

WithoutLineBreaks(cursor) == SelectSeq(cursor, LAMBDA c : c \notin {"\n", "\r"})

Digit(b) == b \in 48..57
Val(b) == b - 48
AllDigits(s) == \A i \in 1..Len(s) : Digit(s[i])
Two(s, i) == Val(s[i]) * 10 + Val(s[i + 1])
Leap(y) == y % 4 = 0 /\ (y % 100 # 0 \/ y % 400 = 0)
MonthLength(m, y) ==
    IF m = 2 THEN (IF Leap(y) THEN 29 ELSE 28)
    ELSE IF m \in {4, 6, 9, 11} THEN 30 ELSE 31

\* yyyy-mm-dd, a day of the calendar
IsDate(d) ==
    /\ Len(d) = 10
    /\ AllDigits(SubSeq(d, 1, 4)) /\ AllDigits(SubSeq(d, 6, 7)) /\ AllDigits(SubSeq(d, 9, 10))
    /\ d[5] = ByteOf("-") /\ d[8] = ByteOf("-")
    /\ Two(d, 6) \in 1..12
    /\ Two(d, 9) \in 1..MonthLength(Two(d, 6), Two(d, 1) * 100 + Two(d, 3))

\* hh:mm:ss; the hour may be written with one digit unless canonical
IsClock(c, canonical) ==
    /\ Len(c) \in (IF canonical THEN {8} ELSE {7, 8})
    /\ LET h == SubSeq(c, 1, Len(c) - 6)
       IN  /\ AllDigits(h)
           /\ (IF Len(h) = 2 THEN Two(h, 1) ELSE Val(h[1])) < 24
    /\ c[Len(c) - 5] = ByteOf(":") /\ c[Len(c) - 2] = ByteOf(":")
    /\ AllDigits(SubSeq(c, Len(c) - 4, Len(c) - 3)) /\ Two(c, Len(c) - 4) < 60
    /\ AllDigits(SubSeq(c, Len(c) - 1, Len(c))) /\ Two(c, Len(c) - 1) < 60

\* nothing, or a separator and digits; canonically a period and at most nine
\* digits of which the last is not 0
IsFraction(f, canonical) ==
    \/ f = <<>>
    \/ /\ Len(f) >= 2
       /\ f[1] \in {ByteOf("."), ByteOf(",")}
       /\ AllDigits(SubSeq(f, 2, Len(f)))
       /\ canonical => f[1] = ByteOf(".") /\ Len(f) <= 10 /\ f[Len(f)] # ByteOf("0")

\* Z, or unless canonical a signed hh:mm
IsZone(z, canonical) ==
    \/ z = <<ByteOf("Z")>>
    \/ /\ ~canonical
       /\ Len(z) = 6
       /\ z[1] \in {ByteOf("+"), ByteOf("-")}
       /\ AllDigits(SubSeq(z, 2, 3)) /\ z[4] = ByteOf(":") /\ AllDigits(SubSeq(z, 5, 6))
       /\ Two(z, 2) <= 24 /\ Two(z, 5) <= 60

\* date T clock fraction zone
TimestampText(s, canonical) ==
    \E i, j \in 11..Len(s) :
        /\ i <= j
        /\ IsDate(SubSeq(s, 1, 10))
        /\ s[11] = ByteOf("T")
        /\ IsClock(SubSeq(s, 12, i), canonical)
        /\ IsFraction(SubSeq(s, i + 1, j), canonical)
        /\ IsZone(SubSeq(s, j + 1, Len(s)), canonical)

DecodedCase == call.op = "DecodeCursorToTime" /\ call.minted = {}

\* C8 as stated: DecodeCursorToTime returns an error and the zero timestamp
\* for every token that is not URL-safe unpadded base64 and for every token
\* whose decoded text is not a canonical timestamp, and fails for no other
\* token.
C8_AsStated ==
    DecodedCase =>
        LET bad == ~ValidB64(call.cursor) \/ ~TimestampText(call.text, TRUE)
        IN  /\ bad => result.err # Nil /\ result.t = ZeroTime
            /\ result.err # Nil => bad

\* C8: DecodeCursorToTime returns an error and the zero timestamp for every
\* token that, its line breaks dropped, is not URL-safe unpadded base64, and
\* for every token whose decoded text is not a timestamp time.Parse reads
\* under RFC3339Nano (which takes a numeric zone, any fraction digits, a comma
\* and a one-digit hour as well); it fails for no other token.
C8_DecodeErrors ==
    DecodedCase =>
        LET bad == \/ ~ValidB64(WithoutLineBreaks(call.cursor))
                   \/ ~TimestampText(call.text, FALSE)
        IN  /\ bad => result.err # Nil /\ result.t = ZeroTime
            /\ result.err # Nil => bad

C8_Witness ==
    /\ DecodedCase
    /\ ValidB64(call.cursor)
    /\ Len(call.text) > 10
    /\ IsDate(SubSeq(call.text, 1, 10))
    /\ ~TimestampText(call.text, FALSE)
    /\ result.err # Nil /\ result.t = ZeroTime

(***************************************************************************)
(* The request parameters of the handlers                                  *)
(***************************************************************************)
ServedList == request.handler = "ListCategories" /\ request.served
ServedGet == request.handler = "GetCategory" /\ request.served

\* the text of a query parameter, empty when the parameter is absent
TextOf(p) == IF p.present THEN p.value ELSE <<>>
LimitText == TextOf(request.query.limit)
CursorText == TextOf(request.query.cursor)
NoParameters == ~request.query.limit.present /\ ~request.query.cursor.present

\* a decimal integer: digits after an optional sign
Negative(s) == s # <<>> /\ s[1] = "-"
Unsigned(s) == IF s # <<>> /\ s[1] \in {"+", "-"} THEN Tail(s) ELSE s
Numeric(s) ==
    /\ Unsigned(s) # <<>>
    /\ \A i \in 1..Len(Unsigned(s)) :
          Unsigned(s)[i] \in {"0", "1", "2", "3", "4", "5", "6", "7", "8", "9"}

\* its digits from the first that is not 0 on, or its last digit
Significant(s) ==
    LET u == Unsigned(s)
        k == IF \E i \in 1..Len(u) : u[i] # "0"
             THEN CHOOSE i \in 1..Len(u) : u[i] # "0" /\ \A j \in 1..(i - 1) : u[j] = "0"
             ELSE Len(u)
    IN  [i \in 1..(Len(u) - k + 1) |-> ByteOf(u[k + i - 1]) - 48]

RECURSIVE Number(_)
Number(ds) == IF ds = <<>> THEN 0 ELSE Number(SubSeq(ds, 1, Len(ds) - 1)) * 10 + ds[Len(ds)]

\* the integer lies in -2^31 .. 2^31 - 1
FitsInt32(s) ==
    LET ds   == Significant(s)
        head == SubSeq(ds, 1, Len(ds) - 1)
        last == ds[Len(ds)]
    IN  \/ Len(ds) < 10
        \/ /\ Len(ds) = 10
           /\ \/ Number(head) < 214748364
              \/ Number(head) = 214748364 /\ last <= (IF Negative(s) THEN 8 ELSE 7)

IntOf(s) ==
    LET ds   == Significant(s)
        head == Number(SubSeq(ds, 1, Len(ds) - 1))
        last == ds[Len(ds)]
    IN  IF Negative(s) THEN (0 - head * 10) - last ELSE head * 10 + last

Smaller(a, b) == IF a < b THEN a ELSE b

\* a request without parameters reaches the repository as (zero time, 0) and
\* is answered with minLimit rows, or with all there are; they are the data
\* of the response when it is a 200
DefaultsServed ==
    /\ call.op = "ListCategories"
    /\ call.createdAfter = ZeroTime /\ call.limit = 0
    /\ args.limit = minLimit + 1
    /\ result.Error = Nil
          => /\ Len(result.Categories.items) = Smaller(minLimit, Cardinality(categories))
             /\ response[2].status = 200
                   => response[3].body.fields.data
                         = JArray([i \in 1..Len(result.Categories.items) |->
                                      CategoryJSON(result.Categories.items[i])])

\* C9 as stated: ParseLimit returns 0 and no error for an absent or empty
\* limit, an error for a limit that is not numeric, and the integer for every
\* other; an absent cursor yields the zero time and no error; a request
\* without parameters calls the repository with (zero time, 0) and is served
\* with the minimum limit.
C9_AsStated ==
    ServedList =>
        /\ LimitText = <<>> => ParseLimit(request.query) = [val |-> 0, err |-> Nil]
        /\ (LimitText # <<>> /\ ~Numeric(LimitText)) => ParseLimit(request.query).err # Nil
        /\ Numeric(LimitText)
              => /\ ParseLimit(request.query).err = Nil
                 /\ FitsInt32(LimitText) => ParseLimit(request.query).val = IntOf(LimitText)
        /\ CursorText = <<>> => ParseCursor(request.query) = [t |-> ZeroTime, err |-> Nil]
        /\ NoParameters => DefaultsServed

\* C9: ParseLimit returns 0 and no error for an absent or empty limit, an
\* error (and 0) for a limit that is not a decimal integer or does not fit in
\* 32 bits, and the integer for every other; an absent cursor yields the zero
\* time and no error; what they return is what the repository is called
\* with, and a request without parameters calls it with (zero time, 0) and is
\* served with the minimum limit.
C9_Defaults ==
    ServedList =>
        /\ LimitText = <<>> => ParseLimit(request.query) = [val |-> 0, err |-> Nil]
        /\ (LimitText # <<>> /\ ~(Numeric(LimitText) /\ FitsInt32(LimitText)))
              => ParseLimit(request.query).err # Nil /\ ParseLimit(request.query).val = 0
        /\ (Numeric(LimitText) /\ FitsInt32(LimitText))
              => ParseLimit(request.query) = [val |-> IntOf(LimitText), err |-> Nil]
        /\ CursorText = <<>> => ParseCursor(request.query) = [t |-> ZeroTime, err |-> Nil]
        /\ (ParseLimit(request.query).err = Nil /\ ParseCursor(request.query).err = Nil)
              => /\ call.op = "ListCategories"
                 /\ call.limit = ParseLimit(request.query).val
                 /\ call.createdAfter = ParseCursor(request.query).t
        /\ NoParameters => DefaultsServed

C9_Witness ==
    /\ ServedList /\ NoParameters
    /\ Cardinality(categories) > minLimit
    /\ call.op = "ListCategories" /\ call.limit = 0 /\ result.Error = Nil
    /\ Len(response[3].body.fields.data.items) = minLimit
    /\ response[3].body.fields.pagination.fields.has_more

\* what is no UUID, and the all-zero UUID
NotUUIDs == {"abc", "f2aa335f-6f91-4d4d-8057-53b0009bc37g"}
AllZeroUUID == "00000000-0000-0000-0000-000000000000"

IdProblem ==
    \/ ~request.vars.id.present
    \/ request.vars.id.value = ""
    \/ request.vars.id.value \in NotUUIDs
    \/ request.vars.id.value = AllZeroUUID

\* the text the cursor of the request carries
CarriedText == (CHOOSE c \in HandlerCursorCases : c.cursor = CursorText).text

CursorProblem ==
    /\ CursorText # <<>>
    /\ \/ ~ValidB64(WithoutLineBreaks(CursorText))
       \/ ~TimestampText(CarriedText, FALSE)

LimitProblem == LimitText # <<>> /\ ~(Numeric(LimitText) /\ FitsInt32(LimitText))

\* status 400 and the invalid-field-format envelope, and nothing else
BadRequestWritten ==
    /\ Len(response) = 3
    /\ response[1] = [ev |-> "Header.Set", key |-> "Content-Type", value |-> "application/json"]
    /\ response[2] = [ev |-> "WriteHeader", status |-> 400]
    /\ response[3].ev = "Write"
    /\ response[3].body
          = [json |-> "object",
             fields |-> [status |-> "error",
                         error |-> [json |-> "object",
                                    fields |-> [code |-> 1002,
                                                message |-> "Invalid field format"]]]]

\* C10: when the parsing of the request parameters fails (an identifier that
\* is missing, malformed or the all-zero UUID; a malformed cursor; a limit
\* that is no 32-bit integer), the handler writes status 400 and the error
\* envelope with code 1002, and the repository is not invoked for the request.
C10_ParseFailure ==
    /\ (ServedGet /\ IdProblem) => BadRequestWritten /\ call.op = "none"
    /\ (ServedList /\ (CursorProblem \/ LimitProblem)) => BadRequestWritten /\ call.op = "none"

C10_Witness ==
    /\ ServedGet
    /\ request.vars.id.value = AllZeroUUID
    /\ BadRequestWritten
    /\ call.op = "none"

C10_WitnessList ==
    /\ ServedList
    /\ CursorProblem /\ ~LimitProblem
    /\ BadRequestWritten
    /\ call.op = "none"

(***************************************************************************)
(* handlers: what a repository error becomes                               *)
(***************************************************************************)
\* the response is Content-Type, this status and, as its body, the error
\* envelope with this code and message, and nothing else
EnvelopeWritten(status, code, message) ==
    /\ Len(response) = 3
    /\ response[1] = [ev |-> "Header.Set", key |-> "Content-Type", value |-> "application/json"]
    /\ response[2] = [ev |-> "WriteHeader", status |-> status]
    /\ response[3].ev = "Write"
    /\ response[3].body
          = [json |-> "object",
             fields |-> [status |-> "error",
                         error |-> [json |-> "object",
                                    fields |-> [code |-> code, message |-> message]]]]

\* the repository was called for the request and returned an error
GetFailed == ServedGet /\ call.op = "GetCategoryByID" /\ result.err # Nil
ListFailed == ServedList /\ call.op = "ListCategories" /\ result.Error # Nil

\* the error is ErrNotFound or wraps it
IsNotFound(err) == "ErrNotFound" \in err.wraps

\* C11: when GetCategoryByID returns an error that is ErrNotFound or wraps it,
\* GetCategory writes status 400, not 404, and the error envelope with code
\* 1300 and the message "Resource not found".
C11_NotFound ==
    (GetFailed /\ IsNotFound(result.err)) => EnvelopeWritten(400, 1300, "Resource not found")

\* the repository returned an error that wraps ErrNotFound and names the id
C11_Witness ==
    /\ GetFailed
    /\ IsNotFound(result.err)
    /\ result.err.op = "getCategoryByID"
    /\ result.err.id = 1
    /\ EnvelopeWritten(400, 1300, "Resource not found")

\* the repository returned ErrNotFound itself
C11_WitnessSentinel ==
    /\ GetFailed
    /\ result.err = [op |-> "", msg |-> "ErrNotFound", wraps |-> {"ErrNotFound"}, id |-> 0]
    /\ EnvelopeWritten(400, 1300, "Resource not found")

\* how many steps of this kind the handler took for the request
Count(kind) == Cardinality({i \in 1..Len(trace) : trace[i].kind = kind})

\* the cause the error wraps is the expiry of the deadline
DeadlineExpired(err) == "context deadline exceeded" \in err.wraps

\* C12: a repository error that is not NotFound, the one of an expired
\* deadline included, makes GetCategory write status 500 and the envelope with
\* code 1600; every repository error makes ListCategories write the same; and
\* the repository was called once for the request, not a second time.
C12_ServerError ==
    /\ (GetFailed /\ ~IsNotFound(result.err))
          => EnvelopeWritten(500, 1600, "Internal server error") /\ Count("repo") = 1
    /\ ListFailed
          => EnvelopeWritten(500, 1600, "Internal server error") /\ Count("repo") = 1

\* the deadline expired in GetCategoryByID
C12_Witness ==
    /\ GetFailed
    /\ DeadlineExpired(result.err)
    /\ EnvelopeWritten(500, 1600, "Internal server error")
    /\ Count("repo") = 1

\* the deadline expired in ListCategories
C12_WitnessList ==
    /\ ListFailed
    /\ DeadlineExpired(result.Error)
    /\ EnvelopeWritten(500, 1600, "Internal server error")
    /\ Count("repo") = 1

(***************************************************************************)
(* data_layer: the outcome of Create, Update and Delete                    *)
(***************************************************************************)
\* the step is a call of one of the three
CrudStep == call'.op \in {"CreateCategory", "UpdateCategory", "DeleteCategory"}

\* the identifier the call is about
TargetID == IF call'.op = "DeleteCategory" THEN call'.id ELSE call'.category.id

\* the statement was not executed: the driver failed, or the INSERT met a row
\* with its primary key
ExecFailed ==
    \/ call'.db = "execErr"
    \/ call'.op = "CreateCategory" /\ \E r \in categories : r.id = TargetID

CountUnreadable == ~ExecFailed /\ call'.db = "rowsErr"

\* the rows the executed statement affected: the rows an INSERT added, the
\* rows with the identifier an UPDATE or DELETE found
AffectedRows ==
    IF call'.op = "CreateCategory" THEN Cardinality(categories' \ categories)
    ELSE Cardinality({r \in categories : r.id = TargetID})

\* C13: Create, Update and Delete return an error that is not NotFound when
\* the statement fails and when the affected-row count cannot be read, an
\* error that is NotFound when the count is zero, and no error only when the
\* count is at least one.
C13_Classes ==
    [][CrudStep =>
         /\ ExecFailed => result' # Nil /\ ~IsNotFound(result')
         /\ CountUnreadable => result' # Nil /\ ~IsNotFound(result')
         /\ (~ExecFailed /\ ~CountUnreadable /\ AffectedRows = 0)
               => result' # Nil /\ IsNotFound(result')
         /\ result' = Nil <=> (~ExecFailed /\ ~CountUnreadable /\ AffectedRows >= 1)]_vars

\* an UPDATE of an identifier the table does not hold
C13_Witness ==
    /\ call.op = "UpdateCategory"
    /\ call.db = "ok"
    /\ \A r \in categories : r.id # call.category.id
    /\ IsNotFound(result)

\* a DELETE whose affected-row count cannot be read
C13_WitnessUnreadable ==
    /\ call.op = "DeleteCategory"
    /\ call.db = "rowsErr"
    /\ result # [op |-> "", msg |-> "", wraps |-> {}, id |-> 0]
    /\ ~IsNotFound(result)

(***************************************************************************)
(* data_layer: reads by identifier                                         *)
(***************************************************************************)
\* the error is of the kind NotFound of either revision of the package
NotFoundKind(err) == err.wraps \cap {"ErrNotFound", "errNotFound"} # {}

\* what a read by identifier is to return from these rows
ReadByID(rows, id, entity, err) ==
    IF \E r \in rows : r.id = id
    THEN /\ entity = {r \in rows : r.id = id}
         /\ err = [op |-> "", msg |-> "", wraps |-> {}, id |-> 0]
    ELSE /\ entity = {}
         /\ NotFoundKind(err)
         /\ err.id = id

\* C14: when the database serves the query, GetCategoryByID and
\* GetProductByID return, for an identifier with no stored row, no entity and
\* a NotFound error whose message quotes the identifier, and for an identifier
\* with a stored row that row and no error.
C14_GetByID ==
    /\ (call.op = "GetCategoryByID" /\ call.db = "ok")
          => ReadByID(categories, call.id, result.category, result.err)
    /\ (call.op = "GetProductByID" /\ call.db = "ok")
          => ReadByID(products, call.id, result.product, result.err)

\* the part of C14 that is about the category repository alone
C14_GetCategoryByID ==
    (call.op = "GetCategoryByID" /\ call.db = "ok")
        => ReadByID(categories, call.id, result.category, result.err)

\* the part of C14 that is about the product repository alone
C14_GetProductByID ==
    (call.op = "GetProductByID" /\ call.db = "ok")
        => ReadByID(products, call.id, result.product, result.err)

\* GetProductByID returns the stored row, and a NotFound error when there is
\* none
C14_GetProductByIDKind ==
    (call.op = "GetProductByID" /\ call.db = "ok") =>
        IF \E r \in products : r.id = call.id
        THEN /\ result.product = {r \in products : r.id = call.id}
             /\ result.err = [op |-> "", msg |-> "", wraps |-> {}, id |-> 0]
        ELSE result.product = {} /\ NotFoundKind(result.err)

\* a read by identifier leaves both tables as they are
C14_StoreUnchanged ==
    [][call'.op \in {"GetCategoryByID", "GetProductByID"}
          => categories' = categories /\ products' = products]_vars

(***************************************************************************)
(* data_layer: what the errors of the repositories say                     *)
(***************************************************************************)
\* the error the last repository call returned, the nil error if none
ReturnedError ==
    IF call.op \in {"GetCategoryByID", "GetProductByID", "ListProducts"} THEN result.err
    ELSE IF call.op = "ListCategories" THEN result.Error
    ELSE result

NoError == [op |-> "", msg |-> "", wraps |-> {}, id |-> 0]

\* the spellings of the name of an operation: as the method is named, or
\* with a small first letter
OperationNames(op) ==
    {op} \cup
    (IF op = "GetCategoryByID" THEN {"getCategoryByID"}
     ELSE IF op = "ListCategories" THEN {"listCategories"}
     ELSE IF op = "CreateCategory" THEN {"createCategory"}
     ELSE IF op = "UpdateCategory" THEN {"updateCategory"}
     ELSE IF op = "DeleteCategory" THEN {"deleteCategory"}
     ELSE IF op = "GetProductByID" THEN {"getProductByID"}
     ELSE IF op = "ListProducts" THEN {"listProducts"}
     ELSE IF op = "CreateProduct" THEN {"createProduct"}
     ELSE IF op = "UpdateProduct" THEN {"updateProduct"}
     ELSE IF op = "DeleteProduct" THEN {"deleteProduct"}
     ELSE {})

\* C15: every error a repository operation returns has the name of the
\* operation that was invoked as its prefix, in every failure branch.
C15_OperationPrefix ==
    ReturnedError # NoError => ReturnedError.op \in OperationNames(call.op)

\* the same of the read operations and DeleteProduct alone
C15_PrefixOfOthers ==
    (call.op \notin {"CreateProduct", "UpdateProduct"} /\ ReturnedError # NoError)
        => ReturnedError.op \in OperationNames(call.op)

\* the same of the statement failure of CreateProduct and UpdateProduct
C15_PrefixOfExecFailure ==
    (call.op \in {"CreateProduct", "UpdateProduct"} /\ call.db = "execErr")
        => ReturnedError.op \in OperationNames(call.op)

\* the error is of the kind DatabaseFailure
DatabaseFailureKind(err) == "errDBFailure" \in err.wraps

\* errors.Is finds the error of the driver in the chain of the error
KeepsDriverError(err) == "driver error" \in err.wraps

\* the call returned an error because a query, an execution or a scan failed
StatementFailed ==
    /\ ReturnedError # NoError
    /\ \/ call.db \in {"queryErr", "execErr"}
       \/ call.db = "scanErr" /\ ~NotFoundKind(ReturnedError)

\* C16: every error a repository operation returns is of exactly one of the
\* kinds NotFound and DatabaseFailure, and the error of a failed query,
\* execution or scan is of kind DatabaseFailure and wraps the driver's error.
C16_ErrorKinds ==
    /\ ReturnedError # NoError
          => (NotFoundKind(ReturnedError) # DatabaseFailureKind(ReturnedError))
    /\ StatementFailed
          => DatabaseFailureKind(ReturnedError) /\ KeepsDriverError(ReturnedError)

\* what holds of the category repository: no error is of both kinds, and the
\* error of a failed statement wraps the driver's error
C16_CategoryErrors ==
    call.op \in {"GetCategoryByID", "ListCategories", "CreateCategory",
                 "UpdateCategory", "DeleteCategory"} =>
        /\ ~(NotFoundKind(ReturnedError) /\ DatabaseFailureKind(ReturnedError))
        /\ (call.db \in {"queryErr", "execErr", "scanErr"} /\ ReturnedError # NoError)
              => KeepsDriverError(ReturnedError)

\* what holds of the product repository: every error is of exactly one kind,
\* and the error of a failed statement is of kind DatabaseFailure
C16_ProductErrors ==
    (call.op \in {"GetProductByID", "ListProducts", "CreateProduct", "UpdateProduct",
                  "DeleteProduct"} /\ ReturnedError # NoError) =>
        /\ NotFoundKind(ReturnedError) # DatabaseFailureKind(ReturnedError)
        /\ StatementFailed => DatabaseFailureKind(ReturnedError)

(***************************************************************************)
(* handlers: a body that does not encode                                   *)
(***************************************************************************)
\* encoding/json cannot write the time: its year has more than four digits
\* or is negative
NoJSONTime(t) == YearOf(t) < 0 \/ YearOf(t) > 9999

\* the handler had a success body to write that holds such a time
EncodingFails ==
    \/ /\ ServedGet /\ call.op = "GetCategoryByID" /\ result.err = NoError
       /\ \E c \in result.category : NoJSONTime(c.created_at)
    \/ /\ ServedList /\ call.op = "ListCategories" /\ result.Error = NoError
       /\ \E i \in 1..Len(result.Categories.items) :
              NoJSONTime(result.Categories.items[i].created_at)

\* the steps of the request that are calls of the ResponseWriter
WriterSteps == {i \in 1..Len(trace) : trace[i].kind \in {"Header.Set", "WriteHeader", "Write"}}

\* the failure to encode was logged before anything went to the ResponseWriter
EncodingFailureLogged ==
    \E i \in 1..Len(trace) :
        /\ trace[i].kind = "LogError"
        /\ trace[i].what.msg = "error encoding json response"
        /\ \A j \in WriterSteps : i < j

\* C17: when the body of a response fails to encode, nothing of that
\* response goes to the ResponseWriter: the failure is logged, and what is
\* written is the header, status 500 and the whole internal-server-error
\* envelope with code 1600, and nothing else.
C17_EncodingFallback ==
    EncodingFails =>
        /\ EnvelopeWritten(500, 1600, "Internal server error")
        /\ Cardinality(WriterSteps) = 3
        /\ EncodingFailureLogged

\* a page with a row of year 10000
C17_Witness ==
    /\ ServedList
    /\ EncodingFails
    /\ EnvelopeWritten(500, 1600, "Internal server error")
    /\ EncodingFailureLogged

\* a category of year 10000
C17_WitnessGet ==
    /\ ServedGet
    /\ EncodingFails
    /\ EnvelopeWritten(500, 1600, "Internal server error")
    /\ EncodingFailureLogged

(***************************************************************************)
(* handlers: one response for a request                                    *)
(***************************************************************************)
\* a handler has returned from the request
Answered == request.handler \in {"GetCategory", "ListCategories"} /\ request.served

\* a write of the body failed at step i: it was logged afterwards, and no call
\* of the ResponseWriter follows it
FailedWriteEnds(i) ==
    /\ \E j \in (i + 1)..Len(trace) :
          /\ trace[j].kind = "LogError"
          /\ trace[j].what.msg = "error writing response to client"
    /\ \A j \in WriterSteps : j <= i

OneResponse ==
    /\ Count("repo") <= 1
    /\ Count("WriteHeader") = 1
    /\ Count("Write") <= 1
    /\ \A i \in 1..Len(trace) :
          (trace[i].kind = "Write" /\ trace[i].what.failed) => FailedWriteEnds(i)

\* C18: every request GetCategory or ListCategories is given is answered, and
\* when it is, the repository has been called at most once, WriteHeader once
\* and the body written at most once; a failed write of the body was logged
\* and was the last call of the ResponseWriter.
C18_OneResponse ==
    /\ [](Answered => OneResponse)
    /\ (~request.served) ~> Answered

\* the safety part of C18
C18_OneResponseSafety == Answered => OneResponse

\* a request whose repository call failed and whose body could not be written
C18_Witness ==
    /\ Answered
    /\ Count("repo") = 1
    /\ Count("WriteHeader") = 1
    /\ \E i \in 1..Len(trace) :
          trace[i].kind = "Write" /\ trace[i].what.failed /\ FailedWriteEnds(i)

(***************************************************************************)
(* handlers: what is logged for a request                                  *)
(***************************************************************************)
\* the steps of the request that are calls of LogError
LogCalls == {i \in 1..Len(trace) : trace[i].kind = "LogError"}

\* the body was handed to the ResponseWriter and the write did not fail
WrittenOK ==
    /\ Count("Write") = 1
    /\ \A i \in 1..Len(trace) : trace[i].kind = "Write" => ~trace[i].what.failed

\* const op of the handler that served the request
HandlerOp ==
    IF request.handler = "GetCategory" THEN "CategoryHandler.GetCategory"
    ELSE "CategoryHandler.ListCategories"

\* the handler returned before it called the repository
ParseFailed == Answered /\ call.op = "none"

\* the error the parsing of the request ended with
ParseError ==
    IF request.handler = "GetCategory" THEN ParseUUIDParam(request.vars.id).err
    ELSE IF ParseCursor(request.query).err # NoError THEN ParseCursor(request.query).err
    ELSE ParseLimit(request.query).err

FailingPath == ParseFailed \/ GetFailed \/ ListFailed

\* the error the request failed with
UnderlyingError ==
    IF ParseFailed THEN ParseError ELSE IF GetFailed THEN result.err ELSE result.Error

\* LogError was called once, with op and err, before any call of the
\* ResponseWriter
LoggedOnceBefore(op, err) ==
    \E i \in 1..Len(trace) :
        /\ LogCalls = {i}
        /\ trace[i].what.op = op
        /\ trace[i].what.err = err
        /\ \A j \in WriterSteps : i < j

\* the request was answered with status 200 and the body reached the client
SuccessfulRequest ==
    /\ Answered /\ WrittenOK
    /\ \E i \in 1..Len(trace) : trace[i].kind = "WriteHeader" /\ trace[i].what.status = 200

\* C19: a request that fails in parsing or in the repository, and whose error
\* response is written, has made one call of LogError, with the op of its
\* handler and the error it failed with, before anything was written; a
\* request answered with success has made none.
C19_LoggedOnce ==
    /\ (FailingPath /\ WrittenOK) => LoggedOnceBefore(HandlerOp, UnderlyingError)
    /\ SuccessfulRequest => LogCalls = {}

\* ListCategories with a limit that does not parse: logged by
\* ParseAndValidatePagination, then answered
C19_Witness ==
    /\ ParseFailed /\ request.handler = "ListCategories" /\ WrittenOK
    /\ ParseCursor(request.query).err = NoError
    /\ LoggedOnceBefore("CategoryHandler.ListCategories", ParseLimit(request.query).err)

\* a request answered with success
C19_WitnessSuccess == SuccessfulRequest /\ call.op = "GetCategoryByID" /\ LogCalls = {}

\* a repository error, logged once before the envelope was written
C19_WitnessRepo == GetFailed /\ WrittenOK /\ LoggedOnceBefore(HandlerOp, result.err)

(***************************************************************************)
(* handlers: what an error response shows of the error                     *)
(***************************************************************************)
\* the class of the error a request failed with
ErrorClass ==
    IF ParseFailed THEN "parse failure"
    ELSE IF GetFailed /\ IsNotFound(result.err) THEN "NotFound"
    ELSE "other"

\* the status and the envelope of each class
ClassResponse ==
    [class \in {"parse failure", "NotFound", "other"} |->
        IF class = "parse failure"
        THEN [status |-> 400, code |-> 1002, message |-> "Invalid field format"]
        ELSE IF class = "NotFound"
        THEN [status |-> 400, code |-> 1300, message |-> "Resource not found"]
        ELSE [status |-> 500, code |-> 1600, message |-> "Internal server error"]]

\* the status written and the body handed to the ResponseWriter
ClientVisible == [status |-> response[2].status, body |-> response[3].body]

\* the error envelope with `code` and `message` and no other key
ErrorBody(code, message) ==
    [json |-> "object",
     fields |-> [status |-> "error",
                 error |-> [json |-> "object",
                            fields |-> [code |-> code, message |-> message]]]]

\* C20: the status and the body of the response to a request that failed are
\* those of the class of its error, whatever the error says: the message is the
\* constant of the class and the envelope has no details.
C20_ClassOnly ==
    FailingPath =>
        /\ Len(response) = 3
        /\ ClientVisible
              = [status |-> ClassResponse[ErrorClass].status,
                 body   |-> ErrorBody(ClassResponse[ErrorClass].code,
                                      ClassResponse[ErrorClass].message)]

\* ListCategories failed on the driver's error, and on the expiry of the
\* deadline: the same response
C20_Witness ==
    /\ ListFailed /\ ErrorClass = "other"
    /\ "driver error" \in result.Error.wraps
    /\ ClientVisible = [status |-> 500, body |-> ErrorBody(1600, "Internal server error")]

C20_WitnessDeadline ==
    /\ ListFailed /\ ErrorClass = "other"
    /\ DeadlineExpired(result.Error) /\ "driver error" \notin result.Error.wraps
    /\ ClientVisible = [status |-> 500, body |-> ErrorBody(1600, "Internal server error")]

\* NotFound as the repository wraps it and as the sentinel alone: the same
\* response
C20_WitnessNotFound ==
    /\ GetFailed /\ ErrorClass = "NotFound" /\ result.err.op = ""
    /\ ClientVisible = [status |-> 400, body |-> ErrorBody(1300, "Resource not found")]

(***************************************************************************)
(* handlers: the page envelope of ListCategories                           *)
(***************************************************************************)
\* ListCategories answered with status 200
ListOK == ServedList /\ Len(response) = 3 /\ response[2].status = 200

\* the keys of the body of the response, and of its pagination object
BodyKeys == DOMAIN response[3].body.fields
PaginationKeys == DOMAIN response[3].body.fields.pagination.fields

\* C21: a 200 of ListCategories has an array as data and a pagination object
\* with both next_cursor and has_more, on a page that has more and on the
\* last one.
C21_PageEnvelope ==
    ListOK =>
        /\ {"data", "pagination"} \subseteq BodyKeys
        /\ response[3].body.fields.data.json = "array"
        /\ {"next_cursor", "has_more"} \subseteq PaginationKeys

\* what a 200 of ListCategories has: an array as data, next_cursor on every
\* page, has_more (true) on a page that has more and no has_more on the last
C21_OmitEmpty ==
    ListOK =>
        /\ {"data", "pagination"} \subseteq BodyKeys
        /\ response[3].body.fields.data.json = "array"
        /\ "next_cursor" \in PaginationKeys
        /\ "has_more" \in PaginationKeys <=> result.HasMore
        /\ result.HasMore => response[3].body.fields.pagination.fields.has_more

\* a last page, written without has_more
C21_LastPage == ListOK /\ ~result.HasMore /\ PaginationKeys = {"next_cursor"}

(***************************************************************************)
(* handlers: the cursor of a last page                                     *)
(***************************************************************************)
\* the next_cursor of the response
NextCursorWritten == response[3].body.fields.pagination.fields.next_cursor

\* C22: the response of ListCategories carries a cursor token only when the
\* page has more results; a last page carries none.
C22_CursorOnlyWhenMore ==
    ListOK => ("next_cursor" \in PaginationKeys => result.HasMore)

\* what a last page carries: the token of the zero time, which the server
\* decodes to the cursor of the first page
C22_ZeroTimeToken ==
    (ListOK /\ ~result.HasMore) =>
        /\ "next_cursor" \in PaginationKeys
        /\ NextCursorWritten = EncodeTimeToCursor(ZeroTime)
        /\ DecodeCursorToTime(NextCursorWritten) = [t |-> ZeroTime, err |-> Nil]

\* a last page that holds rows, written with a token
C22_LastPageToken ==
    /\ ListOK /\ ~result.HasMore /\ Len(result.Categories.items) > 0
    /\ NextCursorWritten = EncodeTimeToCursor(ZeroTime)

(***************************************************************************)
(* data_layer: what Update leaves as it was                                *)
(***************************************************************************)
\* of the table `before` an update of the row `id` made `after`: every row
\* kept its id and created_at, and every row but `id` is as it was
Kept(before, after, id) ==
    /\ Cardinality(after) = Cardinality(before)
    /\ \A r \in before :
          \E q \in after :
              /\ q.id = r.id
              /\ q.created_at = r.created_at
              /\ r.id # id => q = r

\* as Kept, without created_at
KeptButCreatedAt(before, after, id) ==
    /\ Cardinality(after) = Cardinality(before)
    /\ \A r \in before : \E q \in after : q.id = r.id /\ (r.id # id => q = r)

\* C23: UpdateCategory and UpdateProduct change neither the id nor the
\* created_at of a stored row, and no row but the one whose id matches.
C23_UpdateFrame ==
    [][/\ call'.op = "UpdateCategory"
             => Kept(categories, categories', call'.category.id) /\ products' = products
       /\ call'.op = "UpdateProduct"
             => Kept(products, products', call'.product.id) /\ categories' = categories]_vars

\* UpdateCategory alone
C23_UpdateCategory ==
    [][call'.op = "UpdateCategory"
          => Kept(categories, categories', call'.category.id) /\ products' = products]_vars

\* what UpdateProduct keeps: the ids, and the rows of the other ids
C23_UpdateProduct ==
    [][call'.op = "UpdateProduct"
          => /\ KeptButCreatedAt(products, products', call'.product.id)
             /\ categories' = categories]_vars

\* UpdateCategory was given another name and another created_at for a stored
\* row: the row has the name, and the created_at it had
C23_UpdatedCategory ==
    /\ call.op = "UpdateCategory" /\ result = NoError
    /\ call.category.created_at = T2025
    /\ \E r \in categories :
          r.id = call.category.id /\ r.name = call.category.name /\ r.created_at = T2023

\* UpdateProduct was given another created_at for a stored row: the row has it
C23_UpdatedProduct ==
    /\ call.op = "UpdateProduct" /\ result = NoError
    /\ call.product.created_at = T2025
    /\ call.product \in products

(***************************************************************************)
(* traversals of an unchanging table                                       *)
(***************************************************************************)
\* no two stored categories have the same created_at
DistinctTimes == \A r1, r2 \in categories : r1.created_at = r2.created_at => r1 = r2

\* C24: a traversal of an unchanging table returns no category on two
\* pages, also when categories share a created_at at a page boundary.
C24_NoRepeat == traversal.repeated = {}

\* what holds: no category is returned twice when no two categories share a
\* created_at
C24_NoRepeatDistinct == DistinctTimes => traversal.repeated = {}

\* a traversal that ran to its end and returned a category on two pages
C24_Repeated == traversal.state = "done" /\ traversal.repeated # {}

\* a traversal of more pages than one that ran to its end without a repeat
C24_Traversed ==
    /\ traversal.state = "done" /\ DistinctTimes /\ Cardinality(categories) > 1
    /\ traversal.limit = <<"1">> /\ traversal.repeated = {}

\* the instant the cursor of the traversal stands for
CursorTime == DecodeCursorToTime(traversal.cursor).t

\* the stored categories the client has been given
SeenAll(rows) == {r.id : r \in rows} \subseteq traversal.seen

ListedMore == call.op = "ListCategories" /\ result.Error = NoError /\ result.HasMore

\* C26: the NextCursor of a page that has more is after the createdAfter of
\* the call, and a traversal of an unchanging table comes to the page without
\* has_more.
C26_Terminates ==
    /\ [](ListedMore => Before(call.createdAfter, result.NextCursor))
    /\ (traversal.state = "open") ~> (traversal.state = "done")

\* what holds: NextCursor is never before createdAfter, and a traversal of a
\* table without two categories of one created_at comes to its end
C26_TerminatesDistinct ==
    /\ [](ListedMore => NotBefore(result.NextCursor, call.createdAfter))
    /\ (traversal.state = "open" /\ DistinctTimes) ~> (traversal.state = "done")

\* a page that has more and whose NextCursor is the createdAfter it was asked
\* with: the next request is the same request
C26_SameCursor ==
    /\ traversal.state = "open" /\ ListedMore
    /\ call.createdAfter # ZeroTime
    /\ result.NextCursor = call.createdAfter
    /\ CursorTime = call.createdAfter

(***************************************************************************)
(* traversals of a table that is written to                                *)
(***************************************************************************)
\* the stored rows of the categories that are neither created nor deleted
StableRows == {r \in categories : r.id \in StableIds}

Stored(id) == RowsWithID(categories, id) # {}

\* the call just made, when the database executed its statement and reported
\* the affected rows
Called(op) == call.op = op /\ call.db = "ok"

\* a DeleteCategory(id) that returned nil had a row to delete and left none;
\* one that found no row returned an error that is ErrNotFound; and a row
\* with this identifier is stored again only by CreateCategory of it (which
\* stores the row also when the driver then fails to report the count)
DeletedOnce(id) ==
    /\ (call.op = "DeleteCategory" /\ call.id = id /\ result = Nil)'
          => Stored(id) /\ ~Stored(id)'
    /\ (Called("DeleteCategory") /\ call.id = id)' /\ ~Stored(id)
          => ErrorsIs(result, ErrNotFound)' /\ ~Stored(id)'
    /\ ~Stored(id) /\ Stored(id)'
          => (call.op = "CreateCategory" /\ call.category.id = id)'

\* UpdateCategory of an identifier that is not stored returns an error that
\* is ErrNotFound and stores nothing
UpdateOfDeleted(id) ==
    (Called("UpdateCategory") /\ call.category.id = id)' /\ ~Stored(id)
        => ErrorsIs(result, ErrNotFound)' /\ ~Stored(id)'

\* GetCategoryByID of an identifier that is not stored returns no category
\* and an error that is ErrNotFound
GetOfDeleted(id) ==
    (Called("GetCategoryByID") /\ call.id = id)' /\ ~Stored(id)
        => (ErrorsIs(result.err, ErrNotFound) /\ result.category = {})'

\* C28: of the DeleteCategory calls on one identifier, in any interleaving,
\* with no CreateCategory of it in between, at most one returns nil and the
\* others return an error that is ErrNotFound; and as long as the identifier
\* is not created again, GetCategoryByID and UpdateCategory of it return an
\* error that is ErrNotFound.
C28_DeleteOnce ==
    [][\A id \in Ids : DeletedOnce(id) /\ UpdateOfDeleted(id) /\ GetOfDeleted(id)]_vars

\* the same without GetCategoryByID
C28_DeleteThenUpdate ==
    [][\A id \in Ids : DeletedOnce(id) /\ UpdateOfDeleted(id)]_vars

\* what GetCategoryByID returns instead: its statement fails whether or not
\* the row is stored
C28_GetFails ==
    call.op = "GetCategoryByID"
        => /\ result.category = {}
           /\ result.err.msg = "select query failed"
           /\ ~ErrorsIs(result.err, ErrNotFound)

\* a category deleted, and a second DeleteCategory of it that returned
\* ErrNotFound
C28_DeletedTwice ==
    /\ call.op = "DeleteCategory" /\ call.db = "ok"
    /\ call.id = 1 /\ ErrorsIs(result, ErrNotFound)

(***************************************************************************)
(* Properties of ParseLimit at the ends of the 32-bit range                *)
(***************************************************************************)
\* the limit of the request is a decimal integer outside -2^31 .. 2^31 - 1
LimitOutOfRange == Numeric(LimitText) /\ ~FitsInt32(LimitText)
LimitInRange == Numeric(LimitText) /\ FitsInt32(LimitText)

\* C29: a limit that is a decimal integer outside the signed 32-bit range is
\* answered with status 400 and code 1002 and the repository is not called
\* (the limit is not clamped to the maximum); every integer inside the range
\* is accepted and the repository is called with that very integer, which it
\* then clamps.
C29_LimitRange ==
    ServedList =>
        /\ LimitOutOfRange
              => /\ ParseLimit(request.query) = [val |-> 0, err |-> NumError(ErrRange)]
                 /\ BadRequestWritten
                 /\ call.op = "none"
        /\ LimitInRange
              => /\ ParseLimit(request.query) = [val |-> IntOf(LimitText), err |-> Nil]
                 /\ ~CursorProblem
                       => /\ call.op = "ListCategories"
                          /\ call.limit = IntOf(LimitText)
                          /\ args.limit
                                = checkLimit(IntOf(LimitText), minLimit, maxLimit) + 1

\* 2^31 as limit: 400, and no call of the repository
C29_Witness ==
    /\ ServedList
    /\ LimitText = <<"2", "1", "4", "7", "4", "8", "3", "6", "4", "8">>
    /\ ~CursorProblem
    /\ BadRequestWritten
    /\ call.op = "none"

\* -2^31 - 1 as limit: 400 as well
C29_WitnessBelow ==
    /\ ServedList
    /\ LimitText = <<"-", "2", "1", "4", "7", "4", "8", "3", "6", "4", "9">>
    /\ BadRequestWritten
    /\ call.op = "none"

\* 2^31 - 1 and -2^31 as limit: handed to the repository, which serves the
\* maximum and the minimum
C29_WitnessInRange ==
    /\ ServedList
    /\ call.op = "ListCategories"
    /\ \/ call.limit = MaxInt32 /\ args.limit = maxLimit + 1
       \/ call.limit = MinInt32 /\ args.limit = minLimit + 1

(***************************************************************************)
(* handlers: WriteResponse step by step.  A caller calls WriteResponse,    *)
(* WriteErrorResponse or WriteSuccessResponse; each activation of          *)
(* WriteResponse encodes its body and either writes it and returns, or     *)
(* logs the failure and calls WriteErrorResponse, which calls              *)
(* WriteResponse again.  request.frames is the stack of the activations,   *)
(* request.entries counts them.                                            *)
(***************************************************************************)
MaxEntries == 3

WriterOp == "Caller.Op"
Writers == {"WriteResponse", "WriteErrorResponse", "WriteSuccessResponse"}

\* an activation of WriteResponse: `details` holds its `details any`, or
\* nothing when that is nil
Activation(statusCode, details) ==
    [statusCode |-> statusCode, details |-> details, pc |-> "entered"]

WriterCall(name, statusCode, details) ==
    [handler |-> name, given |-> Activation(statusCode, details),
     frames |-> <<Activation(statusCode, details)>>, entries |-> 1, served |-> FALSE]

\* the data and the details callers pass
WriterData ==
    {ObjectData({}), ObjectData({Category(1, "A", T2023)}),
     ObjectData({Category(2, "A", T10000)}),
     ListData(Slice(<<Category(1, "A", T2023), Category(2, "A", T10000)>>))}
WriterDetails == {NoDetails, {PlainError("name is required")}, {UnsupportedValue}}

WriterCalls ==
    {WriterCall("WriteResponse", s, d) :
        s \in {200, 204},
        d \in {{}} \cup {{HTTPSuccessResponse("ok", data, {})} : data \in WriterData}
               \cup {{HTTPErrorResponse(1002, "Invalid field format", e)} :
                         e \in WriterDetails}}
    \cup {WriterCall("WriteErrorResponse", s, {HTTPErrorResponse(c, "message", e)}) :
             s \in {400, 404, 500}, c \in {1002, 1300, 1600}, e \in WriterDetails}
    \cup {WriterCall("WriteSuccessResponse", s, {HTTPSuccessResponse("ok", data, {})}) :
             s \in {200, 201}, data \in WriterData}

InWriter == request.handler \in Writers /\ ~request.served
Top == request.frames[Len(request.frames)]
Popped == SubSeq(request.frames, 1, Len(request.frames) - 1)

\* what json.Encoder.Encode returns in the activation on top; with nil details
\* nothing is encoded and buf stays empty
Encoding ==
    IF Top.details = {} THEN [ok |-> TRUE, json |-> JNull, err |-> ""]
    ELSE Encode(CHOOSE d \in Top.details : TRUE)

\* the activation on top returns to its caller
Returns ==
    request' = [request EXCEPT !.frames = Popped, !.served = (Popped = <<>>)]

\* WriteResponse, the body encoded: header, status and body go to the
\* ResponseWriter, a failed write is logged, and the activation returns
WriteBody(wr) ==
    /\ InWriter /\ Top.pc = "entered" /\ Encoding.ok
    /\ \E w \in {IF Top.details = {}
                  THEN Written(<<HeaderSet, WriteHeader(Top.statusCode)>>, <<>>)
                  ELSE WriteEncoded(Top.statusCode, Encoding, WriterOp, wr)} :
          /\ response' = response \o w.events
          /\ logged' = logged \o w.logs
          /\ trace' = trace \o w.trace
    /\ Returns
    /\ UNCHANGED <<categories, minLimit, maxLimit, call, args, result, products,
                   traversal, fetches>>

\* the activation the fallback of WriteResponse enters: WriteErrorResponse
\* with 500, code 1600 and nil details
FallbackActivation ==
    Activation(StatusInternalServerError,
               {HTTPErrorResponse(ErrCodeInternalServerError, ErrMessageInternalServerError,
                                  NoDetails)})

\* the fallback as it would be if it handed the body that failed to encode to
\* WriteResponse again
FallbackRetried ==
    /\ InWriter /\ Top.pc = "entered" /\ ~Encoding.ok
    /\ request.entries < MaxEntries
    /\ \E entry \in {LogEntry(WriterOp, PlainError(Encoding.err),
                               "error encoding json response", <<>>)} :
          /\ logged' = Append(logged, entry)
          /\ trace' = Append(trace, Did("LogError", entry))
    /\ request' = [request EXCEPT
                      !.frames = Popped \o <<[Top EXCEPT !.pc = "fallback"],
                                              Activation(StatusInternalServerError,
                                                         Top.details)>>,
                      !.entries = @ + 1]
    /\ UNCHANGED <<categories, minLimit, maxLimit, call, args, result, products,
                   response, traversal, fetches>>

\* WriteResponse, the encoding failed: the failure is logged and
\* WriteErrorResponse entered, nothing having gone to the ResponseWriter
Fallback ==
    /\ InWriter /\ Top.pc = "entered" /\ ~Encoding.ok
    /\ request.entries < MaxEntries
    /\ \E entry \in {LogEntry(WriterOp, PlainError(Encoding.err),
                               "error encoding json response", <<>>)} :
          /\ logged' = Append(logged, entry)
          /\ trace' = Append(trace, Did("LogError", entry))
    /\ request' = [request EXCEPT
                      !.frames = Popped \o <<[Top EXCEPT !.pc = "fallback"],
                                              FallbackActivation>>,
                      !.entries = @ + 1]
    /\ UNCHANGED <<categories, minLimit, maxLimit, call, args, result, products,
                   response, traversal, fetches>>

\* WriteErrorResponse has returned to the fallback, which returns
FallenBack ==
    /\ InWriter /\ Top.pc = "fallback"
    /\ Returns
    /\ UNCHANGED <<categories, minLimit, maxLimit, call, args, result, products,
                   response, logged, trace, traversal, fetches>>

InitWriter ==
    /\ categories = {}
    /\ minLimit = 1
    /\ maxLimit = MaxCfgLimit
    /\ call = [op |-> "none"]
    /\ args = [created_at |-> ZeroTime, limit |-> 0]
    /\ result = Nil
    /\ products = {}
    /\ request = [handler |-> "none", served |-> TRUE]
    /\ response = <<>>
    /\ logged = <<>>
    /\ trace = <<>>
    /\ traversal = NoTraversal
    /\ fetches = 0

WriterStep ==
    \/ \E wr \in WriteOutcomes : WriteBody(wr)
    \/ Fallback
    \/ FallenBack

NextWriter ==
    \/ \E c \in WriterCalls : Receive(c)
    \/ WriterStep

SpecWriter == InitWriter /\ [][NextWriter]_vars

\* a goroutine that has entered WriteResponse takes its next step
SpecWriterFair == SpecWriter /\ WF_vars(WriterStep)

(***************************************************************************)
(* Properties of WriteResponse: it returns                                 *)
(***************************************************************************)
\* the call of the request: what it was given
Given == request.given

\* the encoding failures the call logged
EncodingFailures ==
    {i \in 1..Len(logged) : logged[i].msg = "error encoding json response"}

\* C30: every call of WriteResponse, WriteErrorResponse and
\* WriteSuccessResponse returns; WriteResponse is entered at most twice for
\* it, the second time by the fallback with the 500 envelope without details,
\* which encodes; this also with details that cannot be encoded.
C30_Terminates ==
    /\ [](request.handler \in Writers
            => /\ request.entries <= 2
               /\ Len(request.frames) <= 2
               /\ Cardinality(EncodingFailures) = request.entries - 1
               /\ (Len(request.frames) = 2
                     => /\ request.frames[2] = FallbackActivation
                        /\ Encode(CHOOSE d \in request.frames[2].details : TRUE).ok))
    /\ (request.handler \in Writers /\ ~request.served) ~> request.served

\* a call that has returned did what WriteResponse, as the handlers use it,
\* does with what the call was given
C30_SameAsWriteResponse ==
    (request.handler \in Writers /\ request.served /\ Given.details # {})
        => \E wr \in WriteOutcomes :
              \E w \in {WriteResponse(Given.statusCode, CHOOSE d \in Given.details : TRUE,
                                       WriterOp, wr)} :
                  response = w.events /\ logged = w.logs /\ trace = w.trace

\* WriteErrorResponse called with a channel as details has returned: the
\* encoding failed once and the 500 envelope was written
C30_Witness ==
    /\ request.handler = "WriteErrorResponse" /\ request.served
    /\ request.entries = 2
    /\ Cardinality(EncodingFailures) = 1
    /\ Len(response) = 3
    /\ response[2] = WriteHeader(500)
    /\ "details" \notin DOMAIN response[3].body.fields.error.fields

\* WriteSuccessResponse of a category of year 10000 in the fallback
C30_WitnessFallback ==
    /\ request.handler = "WriteSuccessResponse" /\ ~request.served
    /\ Len(request.frames) = 2

====
